---- MODULE Spec2Model ----
(***************************************************************************)
(* Model of the PlantGeneSignatureBuilder ranker                           *)
(* (rank_gene_signatures.py, pgsb/domains/parser.py, scanner.py).          *)
(*                                                                         *)
(* Strings are sequences of tokens: a token is a substring that the        *)
(* regular expressions and str.replace calls of the code treat as a unit   *)
(* (a locus name, ".1", ".p", ".v1.2", ...).  Scores are fixed-point       *)
(* numbers with one decimal digit: the integer v stands for v/10, so the   *)
(* 0.8 and 0.2 thresholds of the orthology classifier are 8 and 2.         *)
(***************************************************************************)
EXTENDS Integers, Sequences, FiniteSets, TLC

VARIABLES
    pc,                     \* position of run() / of the function under call
    config,                 \* self.config
    go_table,               \* content of config['input_go_file']
    base_genes,             \* base_genes in run()
    go_annotations,         \* self.go_annotations
    gene_scores_raw,        \* self.gene_scores_raw
    gene_scores_capped,     \* self.gene_scores_capped
    gene_evidence,          \* self.gene_evidence
    synergy_bonuses,        \* self.synergy_bonuses
    domtbl,                 \* content of the domain table written by hmmscan
    gene_domains,           \* result of parse_domtbl
    ortho_df,               \* content of the orthology file
    ortho_data,             \* result of _parse_orthology_file
    arabidopsis_annotations,\* self.arabidopsis_annotations
    arabidopsis_po_context, \* self.arabidopsis_po_context
    call,                   \* arguments of a function called on its own
    ret,                    \* its return value
    evidence_writers,       \* per evidence field, the scorers that assigned it
    df_scored,              \* rows of the scored table, in file order
    threshold,              \* threshold of _select_high_confidence
    hc_file,                \* ids of the high-confidence id file
    selected_df,            \* rows of the returned high-confidence table
    run_info,               \* self.run_info, result of create_run_dir
    dirs,                   \* the directories under results/runs
    disk_files,             \* the files of the run directories, with content
    manifest,               \* content of outputs/manifest.json, <<>> if none
    latest,                 \* results/latest and results/latest_path.txt
    clock                   \* datetime.now(), in whole seconds

vars == <<pc, config, go_table, base_genes, go_annotations, gene_scores_raw,
          gene_scores_capped, gene_evidence, synergy_bonuses, domtbl,
          gene_domains, ortho_df, ortho_data, arabidopsis_annotations,
          arabidopsis_po_context, call, ret, evidence_writers, df_scored,
          threshold, hc_file, selected_df, run_info, dirs, disk_files,
          manifest, latest, clock>>

None == "None"
NoId == <<>>                \* no GeneID: the raw id did not map

(***************************************************************************)
(* Generic helpers                                                         *)
(***************************************************************************)
Min(a, b) == IF a <= b THEN a ELSE b

\* a cap that is not applied
Uncapped(raw_score, cap) == raw_score

\* capped_score = min(raw_score, caps[...])
Capped(raw_score, cap) == Min(raw_score, cap)

Range(s) == {s[i] : i \in 1..Len(s)}

RECURSIVE SeqsUpTo(_, _)
SeqsUpTo(S, n) ==
    IF n = 0 THEN {<<>>}
    ELSE LET shorter == SeqsUpTo(S, n - 1)
         IN  shorter \cup {Append(s, x) : s \in {t \in shorter : Len(t) = n - 1}, x \in S}

(***************************************************************************)
(* Identifiers as token sequences                                          *)
(***************************************************************************)
Core1 == "BdiBd21-3.1G0000001"
Core2 == "BdiBd21-3.2G0000002"
Bradi == "Bradi1g00010"          \* a locus name of another naming scheme

\* tokens matched by the locus pattern BdiBd21-3\.\dG\d{7}
CoreTokens == {Core1, Core2}

IdTokens == {Core1, Core2, Bradi, ".1", ".2", ".p", ".v1.2"}

\* character order of the tokens, for sorted()
TokRank(t) ==
    CASE t = ".1"    -> 1
      [] t = ".2"    -> 2
      [] t = ".p"    -> 3
      [] t = ".v1.2" -> 4
      [] t = ".v3.1" -> 5
      [] t = Core1   -> 6
      [] t = Core2   -> 7
      [] t = Bradi   -> 8
      [] OTHER       -> 9

RECURSIVE IdLess(_, _)
IdLess(a, b) ==
    IF b = <<>> THEN FALSE
    ELSE IF a = <<>> THEN TRUE
    ELSE IF Head(a) # Head(b) THEN TokRank(Head(a)) < TokRank(Head(b))
    ELSE IdLess(Tail(a), Tail(b))

\* sorted(set(...)) of identifiers
RECURSIVE SortedIds(_)
SortedIds(S) ==
    IF S = {} THEN <<>>
    ELSE LET m == CHOOSE x \in S : \A y \in S \ {x} : IdLess(x, y)
         IN  <<m>> \o SortedIds(S \ {m})

\* re.search of the locus pattern: the first locus token of the string
RECURSIVE RegexSearch(_)
RegexSearch(s) ==
    IF s = <<>> THEN None
    ELSE IF Head(s) \in CoreTokens THEN Head(s)
    ELSE RegexSearch(Tail(s))

\* Series.str.extract(core_re): capture group of the first match; the
\* pattern is the locus pattern in a group, anchored with ^ or not
StrExtract(pattern, s) ==
    IF pattern = "^(LOCUS)"
    THEN IF s # <<>> /\ Head(s) \in CoreTokens THEN Head(s) ELSE None
    ELSE RegexSearch(s)

\* go_df["core"] + suffix, rows without a match dropped
GoGeneId(pattern, suffix, raw) ==
    LET core == StrExtract(pattern, raw)
    IN  IF core = None THEN NoId ELSE <<core, suffix>>

\* brachy_pattern.search(...).group() + suffix
OrthoGeneId(suffix, raw) ==
    LET m == RegexSearch(raw)
    IN  IF m = None THEN NoId ELSE <<m, suffix>>

\* a str is its characters, whatever pieces it was put together from: a "."
\* that comes to stand before a "p" reads as ".p"
RECURSIVE Chars(_)
Chars(s) ==
    IF Len(s) < 2 THEN s
    ELSE IF s[1] = "." /\ s[2] = "p" THEN <<".p">> \o Chars(SubSeq(s, 3, Len(s)))
    ELSE <<Head(s)>> \o Chars(Tail(s))

\* one left-to-right pass of str.replace(old, ''): what is left of a removed
\* occurrence is not scanned again
RECURSIVE StrRemoveScan(_, _)
StrRemoveScan(s, old) ==
    IF Len(s) < Len(old) THEN s
    ELSE IF SubSeq(s, 1, Len(old)) = old
         THEN StrRemoveScan(SubSeq(s, Len(old) + 1, Len(s)), old)
    ELSE <<Head(s)>> \o StrRemoveScan(Tail(s), old)

\* str.replace(old, ''), old being one or two tokens long
StrRemove(s, old) == StrRemoveScan(Chars(s), old)

extract_gene_id(protein_id) ==
    LET base == StrRemove(StrRemove(protein_id, <<".1", ".p">>), <<".p">>)
    IN  IF base # <<>> /\ base[Len(base)] = ".v1.2" THEN base
        ELSE Append(base, ".v1.2")

(***************************************************************************)
(* Configuration                                                           *)
(***************************************************************************)
GO_PCD == "GO:0012501"
GO_DEATH == "GO:0008219"
GO_ROS == "GO:0006979"
GO_SEN == "GO:0010150"
GO_OTHER == "GO:0005515"          \* never a target term

\* scoring.weights.go: categories in file order, each a dict term -> weight
GoWeights2 ==
    << [name |-> "PCD", terms |-> (GO_PCD :> 30 @@ GO_DEATH :> 20)],
       [name |-> "ROS", terms |-> (GO_ROS :> 20 @@ GO_DEATH :> 10)] >>

GoWeights3 ==
    << [name |-> "PCD", terms |-> (GO_PCD :> 30)],
       [name |-> "ROS", terms |-> (GO_ROS :> 20)],
       [name |-> "SENESCENCE", terms |-> (GO_SEN :> 40)] >>

PF_CASPASE == "PF00656"
PF_NBARC == "PF00931"
PF_PEROX == "PF00141"
PF_NAM == "PF02365"

\* domain_database.expected_domains: dict category -> list of Pfam ids
ExpectedDomains ==
    [PCD |-> {PF_CASPASE, PF_NBARC}, ROS |-> {PF_PEROX}, SENESCENCE |-> {PF_NAM}]

SynergyRules ==
    << [name |-> "PCD_GO_plus_domain", if_all |-> <<"has_PCD_GO", "has_expected_domain">>, bonus |-> 30],
       [name |-> "ROS_GO_plus_ortholog", if_all |-> <<"has_ROS_GO", "has_one_to_one_ortholog">>, bonus |-> 20],
       [name |-> "keywords", if_all |-> <<"tair_keyword_hits>=2">>, bonus |-> 20],
       [name |-> "expression", if_all |-> <<"has_PCD_GO", "is_expressed">>, bonus |-> 50] >>

BaseConfig ==
    [ go_file_exists        |-> TRUE,
      protein_to_core_regex |-> "^(LOCUS)",
      seurat_suffix         |-> ".v1.2",
      go_level_filter       |-> "BP",
      go_weights            |-> GoWeights3,
      caps                  |-> [go_max |-> 50, domain_max |-> 30, orthology_max |-> 30,
                                 tair_max |-> 30, po_max |-> 20, synergy_max |-> 40],
      domain_enabled        |-> TRUE,
      expected_domains      |-> ExpectedDomains,
      evalue_threshold      |-> 0 - 5,
      domain_match_hit      |-> 20,
      orthology_enabled     |-> TRUE,
      best_hit_multiplier   |-> 2,
      one_to_one_bonus      |-> 20,
      min_best_score_for_points |-> 5,
      arabidopsis_enabled   |-> TRUE,
      keywords              |-> <<"senescence", "cell death", "protease">>,
      tair_keywords_hit     |-> 20,
      po_enabled            |-> TRUE,
      po_keywords_hit       |-> 10,
      synergy_rules         |-> SynergyRules,
      selection_mode        |-> "knee",
      selection_quantile    |-> 9 ]

OutputPrefix == "PCD_ROS"

\* the config as the dict that is hashed and saved: of the items of the
\* file, those with a text value, in the order of the file
ConfigDict(cfg) ==
    << <<"output_prefix", OutputPrefix>>,
       <<"go_level_filter", cfg.go_level_filter>>,
       <<"selection_mode", cfg.selection_mode>> >>

(***************************************************************************)
(* Step 1: base gene extraction                                            *)
(***************************************************************************)
\* str.upper() on the values a level filter takes
Upper(s) ==
    CASE s = "bp"  -> "BP"
      [] s = "mf"  -> "MF"
      [] s = "all" -> "ALL"
      [] OTHER     -> s

\* go_terms: keys of every category of scoring.weights.go
TargetTerms(go_weights) ==
    UNION {DOMAIN go_weights[i].terms : i \in 1..Len(go_weights)}

LevelFilterApplies(go_level) == go_level # "" /\ Upper(go_level) # "ALL"

\* the rows of go_df that end up in `filtered`, with their seurat_gene
RowMapped(cfg, row) ==
    GoGeneId(cfg.protein_to_core_regex, cfg.seurat_suffix, row.gene) # NoId

\* a filter that forgets the ontology level
RowQualifiesAnyLevel(cfg, row) ==
    /\ RowMapped(cfg, row)
    /\ row.GO \in TargetTerms(cfg.go_weights)

RowQualifies(cfg, row) ==
    /\ RowMapped(cfg, row)
    /\ row.GO \in TargetTerms(cfg.go_weights)
    /\ (LevelFilterApplies(cfg.go_level_filter) => row.level = Upper(cfg.go_level_filter))

WithSeuratGene(cfg, row) ==
    [gene |-> row.gene, GO |-> row.GO, level |-> row.level,
     seurat_gene |-> GoGeneId(cfg.protein_to_core_regex, cfg.seurat_suffix, row.gene)]

RECURSIVE FilteredRows(_, _)
FilteredRows(cfg, table) ==
    IF table = <<>> THEN <<>>
    ELSE IF RowQualifies(cfg, Head(table))
         THEN <<WithSeuratGene(cfg, Head(table))>> \o FilteredRows(cfg, Tail(table))
         ELSE FilteredRows(cfg, Tail(table))

_extract_base_genes(cfg, table) ==
    LET filtered == FilteredRows(cfg, table)
    IN  [go_annotations |-> filtered,
         genes |-> SortedIds({filtered[i].seurat_gene : i \in 1..Len(filtered)})]

(***************************************************************************)
(* Step 2: GO scoring                                                      *)
(***************************************************************************)
\* the rows of self.go_annotations of one gene, in table order
RECURSIVE Annots(_, _)
Annots(annotations, gene) ==
    IF annotations = <<>> THEN <<>>
    ELSE IF Head(annotations).seurat_gene = gene
         THEN <<Head(annotations)>> \o Annots(Tail(annotations), gene)
         ELSE Annots(Tail(annotations), gene)

\* inner loop over the categories for one row: acc is
\* [raw_score, go_terms, categories]
RECURSIVE GoScoreRow(_, _, _, _)
GoScoreRow(go_weights, k, go_id, acc) ==
    IF k > Len(go_weights) THEN acc
    ELSE LET cat == go_weights[k]
             hit == go_id \in DOMAIN cat.terms
             next == IF hit
                     THEN [raw_score  |-> acc.raw_score + cat.terms[go_id],
                           go_terms   |-> Append(acc.go_terms, go_id),
                           categories |-> IF cat.name \in Range(acc.categories)
                                          THEN acc.categories
                                          ELSE Append(acc.categories, cat.name)]
                     ELSE acc
         IN  GoScoreRow(go_weights, k + 1, go_id, next)

RECURSIVE GoScoreRows(_, _, _)
GoScoreRows(go_weights, annots, acc) ==
    IF annots = <<>> THEN acc
    ELSE GoScoreRows(go_weights, Tail(annots),
                     GoScoreRow(go_weights, 1, Head(annots).GO, acc))

GoScoreGene(cfg, annotations, gene) ==
    GoScoreRows(cfg.go_weights, Annots(annotations, gene),
                [raw_score |-> 0, go_terms |-> <<>>, categories |-> <<>>])

\* character order of the GO term ids, for sorted(set(go_terms))
GoRank(t) ==
    CASE t = GO_OTHER -> 1
      [] t = GO_ROS   -> 2
      [] t = GO_DEATH -> 3
      [] t = GO_SEN   -> 4
      [] t = GO_PCD   -> 5
      [] OTHER        -> 6

RECURSIVE SortedBy(_, _)
SortedBy(S, rank) ==
    IF S = {} THEN <<>>
    ELSE LET m == CHOOSE x \in S : \A y \in S : rank[x] <= rank[y]
         IN  <<m>> \o SortedBy(S \ {m}, rank)

SortedGoTerms(S) == SortedBy(S, [t \in S |-> GoRank(t)])

\* the per-gene dictionaries as run() creates them
ZeroRaw == [go |-> 0, domain |-> 0, orthology |-> 0, tair |-> 0, po |-> 0, synergy |-> 0]

ZeroCapped == [go |-> 0, domain |-> 0, orthology |-> 0, tair |-> 0, po |-> 0,
               synergy |-> 0, total |-> 0]

\* evidence records that start with a best orthologue
EvidenceWithDefaultOrtholog ==
    [go_terms |-> <<>>, go_categories |-> <<>>, matched_domains |-> <<>>,
     arabidopsis_orthologs |-> <<>>, best_ortholog |-> "AT1G01010",
     best_ortholog_score |-> 0, orthology_class |-> "none",
     at_symbol |-> "", at_annotation |-> <<>>, tair_keyword_hits |-> <<>>,
     po_terms |-> <<>>, po_context_hits |-> <<>>]

EmptyEvidence ==
    [go_terms |-> <<>>, go_categories |-> <<>>, matched_domains |-> <<>>,
     arabidopsis_orthologs |-> <<>>, best_ortholog |-> None,
     best_ortholog_score |-> 0, orthology_class |-> "none",
     at_symbol |-> "", at_annotation |-> <<>>, tair_keyword_hits |-> <<>>,
     po_terms |-> <<>>, po_context_hits |-> <<>>]

Layers == {"go", "domain", "orthology", "tair", "po", "synergy"}

\* the record of which scorer assigned which evidence fields, after
\* `scorer` assigned `fields`
Wrote(writers, scorer, fields) ==
    [f \in DOMAIN writers |-> IF f \in fields THEN writers[f] \cup {scorer} ELSE writers[f]]

\* an initialisation that also creates an entry for a gene outside the list
ScoringKeysExtra(genes) == Range(genes) \cup {<<Bradi, ".v1.2">>}

\* the genes the initialisation loop of run() creates entries for
ScoringKeys(genes) == Range(genes)

(***************************************************************************)
(* Step 3: domain evidence                                                 *)
(***************************************************************************)
\* one data row of a domtblout file kept by parse_domtbl
DomainHit(row) ==
    [pfam_id        |-> Head(row.target_accession),
     pfam_accession |-> row.target_accession,
     pfam_name      |-> row.target_name,
     evalue         |-> row.domain_evalue,
     full_evalue    |-> row.full_evalue]

\* a filter on the full-sequence e-value
DomtblRowKeptOnFullEvalue(row, evalue_threshold) ==
    /\ ~row.comment
    /\ row.nfields >= 23
    /\ ~(row.full_evalue > evalue_threshold)

\* the condition under which parse_domtbl keeps a line; e-values are
\* powers of ten, held as their exponent
DomtblRowKept(row, evalue_threshold) ==
    /\ ~row.comment
    /\ row.nfields >= 23
    /\ ~(row.domain_evalue > evalue_threshold)

RECURSIVE ParseDomtblRows(_, _, _)
ParseDomtblRows(rows, evalue_threshold, acc) ==
    IF rows = <<>> THEN acc
    ELSE LET row == Head(rows)
             gene_id == extract_gene_id(row.query_name)
             next == IF ~DomtblRowKept(row, evalue_threshold) THEN acc
                     ELSE IF gene_id \in DOMAIN acc
                          THEN [acc EXCEPT ![gene_id] = Append(@, DomainHit(row))]
                          ELSE acc @@ (gene_id :> <<DomainHit(row)>>)
         IN  ParseDomtblRows(Tail(rows), evalue_threshold, next)

parse_domtbl(rows, evalue_threshold) == ParseDomtblRows(rows, evalue_threshold, <<>>)

\* the categories of scoring.weights.go a gene has a term of, in config order
RECURSIVE GeneCategories(_, _, _)
GeneCategories(go_weights, k, go_terms) ==
    IF k > Len(go_weights) THEN <<>>
    ELSE (IF go_terms \cap DOMAIN go_weights[k].terms # {} THEN <<go_weights[k].name>> ELSE <<>>)
         \o GeneCategories(go_weights, k + 1, go_terms)

\* character order of category names, for sorted(gene_categories)
CatRank(c) ==
    CASE c = "PCD" -> 1
      [] c = "ROS" -> 2
      [] c = "SENESCENCE" -> 3
      [] OTHER -> 4

\* the label of a gene: <<>> is 'unknown', <<c>> the single category c,
\* a longer sequence the names joined with '-'
_categorize_genes(cfg, evidence, genes) ==
    [g \in Range(genes) |->
        LET cats == GeneCategories(cfg.go_weights, 1, Range(evidence[g].go_terms))
        IN  IF Len(cats) <= 1 THEN cats
            ELSE SortedBy(Range(cats), [c \in Range(cats) |-> CatRank(c)])]

\* expected_domains_config.get(name, [])
ExpectedGet(expected_domains, name) ==
    IF name \in DOMAIN expected_domains THEN expected_domains[name] ELSE {}

\* the expected domain ids the scorer uses for a category label
ExpectedFor(expected_domains, category) ==
    IF category = <<"PCD">> THEN ExpectedGet(expected_domains, "PCD")
    ELSE IF category = <<"ROS">> THEN ExpectedGet(expected_domains, "ROS")
    ELSE ExpectedGet(expected_domains, "PCD") \cup ExpectedGet(expected_domains, "ROS")

\* all_matches[gene]: the hits of the gene on an expected domain
DomainMatches(cfg, categories, domains, gene) ==
    IF gene \notin DOMAIN domains THEN <<>>
    ELSE LET expected == ExpectedFor(cfg.expected_domains, categories[gene])
             OnList(hit) == hit.pfam_id \in expected
         IN  SelectSeq(domains[gene], OnList)

\* character order of the Pfam ids, for sorted(matched)
PfamRank(p) ==
    CASE p = PF_PEROX   -> 1
      [] p = PF_CASPASE -> 2
      [] p = PF_NBARC   -> 3
      [] p = PF_NAM     -> 4
      [] OTHER          -> 5

\* sorted(matched): the match strings start with the Pfam id
RECURSIVE SortedMatches(_)
SortedMatches(matched) ==
    IF matched = <<>> THEN <<>>
    ELSE LET idx == CHOOSE i \in 1..Len(matched) :
                        \A j \in 1..Len(matched) :
                            \/ PfamRank(matched[i].pfam_id) < PfamRank(matched[j].pfam_id)
                            \/ /\ PfamRank(matched[i].pfam_id) = PfamRank(matched[j].pfam_id)
                               /\ (matched[i].evalue < matched[j].evalue
                                   \/ (matched[i].evalue = matched[j].evalue /\ i <= j))
             rest == [k \in 1..(Len(matched) - 1) |->
                         IF k < idx THEN matched[k] ELSE matched[k + 1]]
         IN  <<matched[idx]>> \o SortedMatches(rest)

DomainRaw(cfg, matched) ==
    Cardinality({matched[i].pfam_id : i \in 1..Len(matched)}) * cfg.domain_match_hit

(***************************************************************************)
(* Step 4: orthology evidence                                              *)
(***************************************************************************)
AT1 == "AT1G01010"
AT2 == "AT2G02020"
AT3 == "AT3G03030"

\* arab_pattern.search(token).group(): the locus inside a token, if any
ArabMatch(token) ==
    CASE token \in {"AT1G01010", "AT1G01010.1"} -> AT1
      [] token \in {"AT2G02020", "AT2G02020.1"} -> AT2
      [] token \in {"AT3G03030", "AT3G03030.1"} -> AT3
      [] OTHER -> None

NaN == 0 - 1

\* float(token) in tenths; NaN stands for the ValueError of a token that
\* is not a number
Float(token) ==
    CASE token = "1.000" -> 10
      [] token = "0.900" -> 9
      [] token = "0.800" -> 8
      [] token = "0.700" -> 7
      [] token = "0.600" -> 6
      [] token = "0.500" -> 5
      [] token = "0.300" -> 3
      [] token = "0.000" -> 0
      [] OTHER -> NaN

Max(S) == CHOOSE x \in S : \A y \in S : y <= x

\* sorted(scores, reverse=True)
RECURSIVE SortedDesc(_)
SortedDesc(scores) ==
    IF scores = <<>> THEN <<>>
    ELSE LET idx == CHOOSE i \in 1..Len(scores) : \A j \in 1..Len(scores) : scores[j] <= scores[i]
             rest == [k \in 1..(Len(scores) - 1) |-> IF k < idx THEN scores[k] ELSE scores[k + 1]]
         IN  <<scores[idx]>> \o SortedDesc(rest)

\* a classifier whose low-confidence test is <= instead of <
ClassifyLowAtThreshold(n_hits, scores) ==
    IF scores = <<>> THEN "none"
    ELSE IF Max(Range(scores)) <= 8 THEN "low_confidence"
    ELSE IF n_hits = 1 THEN "one_to_one"
    ELSE IF n_hits > 1 /\ SortedDesc(scores)[1] - SortedDesc(scores)[2] >= 2 THEN "one_to_one"
    ELSE "one_to_many"

_classify_orthology(n_hits, scores) ==
    IF scores = <<>> THEN "none"
    ELSE IF Max(Range(scores)) < 8 THEN "low_confidence"
    ELSE IF n_hits = 1 THEN "one_to_one"
    ELSE IF n_hits > 1 /\ SortedDesc(scores)[1] - SortedDesc(scores)[2] >= 2 THEN "one_to_one"
    ELSE "one_to_many"

\* GeneListBuilder._classify_orthology of archives/v2.0, which reads the
\* one_to_one_rule of the configuration
ArchiveClassifyOrthology(n_hits, scores, rule) ==
    IF scores = <<>> THEN "low_confidence"
    ELSE IF Max(Range(scores)) < rule.min_best_score THEN "low_confidence"
    ELSE IF n_hits = 1 THEN "one_to_one"
    ELSE IF /\ n_hits > 1
            /\ SortedDesc(scores)[1] - SortedDesc(scores)[2] >= rule.min_second_best_gap
            /\ n_hits <= rule.max_hits
         THEN "one_to_one"
    ELSE "one_to_many"

\* the token loop over OrtoB: acc is [hits, scores, error]
RECURSIVE OrtoBHits(_, _, _)
OrtoBHits(tokens, i, acc) ==
    IF i > Len(tokens) \/ acc.error THEN acc
    ELSE LET arab_id == ArabMatch(tokens[i])
             score == IF i + 1 <= Len(tokens) THEN Float(tokens[i + 1]) ELSE 0
             next == IF arab_id = None THEN acc
                     ELSE IF score = NaN THEN [acc EXCEPT !.error = TRUE]
                     ELSE [hits   |-> Append(acc.hits, arab_id),
                           scores |-> Append(acc.scores, score),
                           error  |-> FALSE]
         IN  OrtoBHits(tokens, i + 1, next)

\* the row loop: acc is [data, error]; a later row of the same gene
\* replaces the record of an earlier one
RECURSIVE ParseOrthoRows(_, _, _)
ParseOrthoRows(rows, suffix, acc) ==
    IF rows = <<>> \/ acc.error THEN acc
    ELSE LET row == Head(rows)
             brachy_gene == OrthoGeneId(suffix, row.OrtoA)
             parsed == OrtoBHits(row.OrtoB, 1, [hits |-> <<>>, scores |-> <<>>, error |-> FALSE])
             record == [arabidopsis_hits |-> parsed.hits,
                        best_score       |-> Max(Range(parsed.scores)),
                        classification   |-> _classify_orthology(Len(parsed.hits), parsed.scores)]
             next == IF brachy_gene = NoId THEN acc
                     ELSE IF parsed.error THEN [acc EXCEPT !.error = TRUE]
                     ELSE IF parsed.hits = <<>> THEN acc
                     ELSE [acc EXCEPT !.data =
                              [g \in DOMAIN acc.data \cup {brachy_gene} |->
                                  IF g = brachy_gene THEN record ELSE acc.data[g]]]
         IN  ParseOrthoRows(Tail(rows), suffix, next)

\* a parse that reads the first row only
ParseOrthologyFirstRow(rows, suffix) ==
    ParseOrthoRows(SubSeq(rows, 1, Min(1, Len(rows))), suffix,
                   [data |-> <<>>, error |-> FALSE])

_parse_orthology_file(rows, suffix) ==
    ParseOrthoRows(rows, suffix, [data |-> <<>>, error |-> FALSE])

\* a score that adds the bonus whatever the classification
OrthoRawBonusAlways(cfg, info) ==
    IF info.best_score < cfg.min_best_score_for_points THEN 0
    ELSE info.best_score * cfg.best_hit_multiplier + cfg.one_to_one_bonus

OrthoRaw(cfg, info) ==
    IF info.best_score < cfg.min_best_score_for_points THEN 0
    ELSE info.best_score * cfg.best_hit_multiplier
         + (IF info.classification = "one_to_one" THEN cfg.one_to_one_bonus ELSE 0)

\* info['arabidopsis_hits'][0] if info['arabidopsis_hits'] else None
BestOrth(info) ==
    IF info.arabidopsis_hits # <<>> THEN info.arabidopsis_hits[1] ELSE None

\* the genes the orthology loop writes to
OrthoScored(genes, data) == {g \in Range(genes) : g \in DOMAIN data}

(***************************************************************************)
(* Steps 5 and 6: keyword and PO context of the best orthologue            *)
(***************************************************************************)
\* str.lower() on the words of the annotation texts and keywords
Lower(w) ==
    CASE w = "Senescence" -> "senescence"
      [] w = "SENESCENCE" -> "senescence"
      [] w = "PROTEASE"   -> "protease"
      [] w = "Cell Death" -> "cell death"
      [] OTHER -> w

\* pattern.search(text) of one escaped keyword, ignoring case, in
\* symbol + " " + annotation
KeywordFound(kw, symbol, annotation) ==
    \E w \in {symbol} \cup Range(annotation) : Lower(w) = Lower(kw)

KeywordHits(keywords, at_info) ==
    LET Found(kw) == KeywordFound(kw, at_info.symbol, at_info.annotation_text)
    IN  SelectSeq(keywords, Found)

\* the genes the keyword loop and the PO loop write to
HasEntry(evidence, g, table) ==
    evidence[g].best_ortholog # None /\ evidence[g].best_ortholog \in DOMAIN table

FirstN(s, n) == SubSeq(s, 1, Min(n, Len(s)))

(***************************************************************************)
(* Step 7: synergy                                                         *)
(***************************************************************************)
\* int(condition.split(">=")[1]) of a "tair_keyword_hits>=" condition;
\* NaN stands for the ValueError of a threshold that is not an integer
KeywordThreshold(condition) ==
    CASE condition = "tair_keyword_hits>=1" -> 1
      [] condition = "tair_keyword_hits>=2" -> 2
      [] condition = "tair_keyword_hits>=3" -> 3
      [] OTHER -> NaN

StartsWithKeywordHits(condition) ==
    condition \in {"tair_keyword_hits>=1", "tair_keyword_hits>=2",
                   "tair_keyword_hits>=3", "tair_keyword_hits>=two"}

ConditionRaises(condition) ==
    StartsWithKeywordHits(condition) /\ KeywordThreshold(condition) = NaN

_evaluate_condition(evidence, condition) ==
    IF condition = "has_PCD_GO" THEN "PCD" \in Range(evidence.go_categories)
    ELSE IF condition = "has_ROS_GO" THEN "ROS" \in Range(evidence.go_categories)
    ELSE IF condition = "has_expected_domain" THEN Len(evidence.matched_domains) > 0
    ELSE IF StartsWithKeywordHits(condition)
         THEN Len(evidence.tair_keyword_hits) >= KeywordThreshold(condition)
    ELSE IF condition = "has_one_to_one_ortholog" THEN evidence.orthology_class = "one_to_one"
    ELSE FALSE

\* the condition loop of one rule, with its break: [met, error]
RECURSIVE AllMet(_, _, _)
AllMet(evidence, conditions, i) ==
    IF i > Len(conditions) THEN [met |-> TRUE, error |-> FALSE]
    ELSE IF ConditionRaises(conditions[i]) THEN [met |-> FALSE, error |-> TRUE]
    ELSE IF ~_evaluate_condition(evidence, conditions[i]) THEN [met |-> FALSE, error |-> FALSE]
    ELSE AllMet(evidence, conditions, i + 1)

\* the rule loop of one gene: [total_synergy, triggers, error]
RECURSIVE SynergyOfGene(_, _, _, _)
SynergyOfGene(evidence, rules, k, acc) ==
    IF k > Len(rules) \/ acc.error THEN acc
    ELSE LET r == AllMet(evidence, rules[k].if_all, 1)
             next == IF r.error THEN [acc EXCEPT !.error = TRUE]
                     ELSE IF r.met
                          THEN [total_synergy |-> acc.total_synergy + rules[k].bonus,
                                triggers      |-> Append(acc.triggers, rules[k].name),
                                error         |-> FALSE]
                          ELSE acc
         IN  SynergyOfGene(evidence, rules, k + 1, next)

\* a detector that stops after the first rule
GeneSynergyFirstRuleOnly(cfg, evidence) ==
    SynergyOfGene(evidence, FirstN(cfg.synergy_rules, 1), 1,
                  [total_synergy |-> 0, triggers |-> <<>>, error |-> FALSE])

GeneSynergy(cfg, evidence) ==
    SynergyOfGene(evidence, cfg.synergy_rules, 1,
                  [total_synergy |-> 0, triggers |-> <<>>, error |-> FALSE])

(***************************************************************************)
(* Step 8: total                                                           *)
(***************************************************************************)
\* a total that forgets the synergy bonus
TotalWithoutSynergy(capped) ==
    capped.go + capped.domain + capped.orthology + capped.tair + capped.po

TotalOf(capped) ==
    capped.go + capped.domain + capped.orthology + capped.tair + capped.po + capped.synergy

(***************************************************************************)
(* Step 9: scored table and high-confidence selection                      *)
(***************************************************************************)
\* ', '.join(strings): the strings with the separator between them
RECURSIVE Join(_)
Join(strings) ==
    IF Len(strings) <= 1 THEN strings
    ELSE <<Head(strings), ", ">> \o Join(Tail(strings))

\* the row of one gene in the scored table; a matched domain string is cut
\* to the Pfam id it starts with
ScoredRow(gene, raw, capped, evidence, triggers) ==
    [brachy_gene_id       |-> gene,
     go_terms             |-> Join(evidence.go_terms),
     go_score_raw         |-> raw.go,
     go_score_capped      |-> capped.go,
     domain_hits          |-> Join([i \in 1..Len(evidence.matched_domains) |->
                                       evidence.matched_domains[i].pfam_id]),
     domain_score_raw     |-> raw.domain,
     domain_score_capped  |-> capped.domain,
     best_arabidopsis_id  |-> IF evidence.best_ortholog = None THEN "" ELSE evidence.best_ortholog,
     best_orth_score      |-> evidence.best_ortholog_score,
     orth_class           |-> evidence.orthology_class,
     orth_score_raw       |-> raw.orthology,
     orth_score_capped    |-> capped.orthology,
     tair_symbol          |-> evidence.at_symbol,
     tair_annotation_text |-> evidence.at_annotation,
     tair_keyword_hits    |-> Join(evidence.tair_keyword_hits),
     tair_score_raw       |-> raw.tair,
     tair_score_capped    |-> capped.tair,
     po_hits              |-> Join(evidence.po_context_hits),
     po_score_raw         |-> raw.po,
     po_score_capped      |-> capped.po,
     synergy_bonus        |-> capped.synergy,
     synergy_triggers     |-> Join(triggers),
     total_score          |-> capped.total]

\* the orders sort_values('total_score', ascending=False) can leave the
\* genes in: descending totals, rows of equal total in any order
SortedOrders(genes, capped) ==
    {order \in [1..Len(genes) -> Range(genes)] :
        /\ \A i, j \in 1..Len(genes) : i # j => order[i] # order[j]
        /\ \A i \in 1..(Len(genes) - 1) :
              capped[order[i]].total >= capped[order[i + 1]].total}

Abs(x) == IF x < 0 THEN 0 - x ELSE x

Reverse(s) == [i \in 1..Len(s) |-> s[Len(s) + 1 - i]]

\* np.median, in twentieths of a point: the middle score, or the mean of
\* the two middle scores
Median(values) ==
    LET sorted == SortedDesc(values)
        n == Len(values)
    IN  IF n % 2 = 1 THEN 20 * sorted[(n + 1) \div 2]
        ELSE 10 * (sorted[n \div 2] + sorted[n \div 2 + 1])

\* np.gradient with unit spacing, times two: central differences inside,
\* one-sided differences at both ends
Gradient(f) ==
    [i \in 1..Len(f) |->
        IF i = 1 THEN 2 * (f[2] - f[1])
        ELSE IF i = Len(f) THEN 2 * (f[Len(f)] - f[Len(f) - 1])
        ELSE f[i + 1] - f[i - 1]]

\* start + np.argmax(np.abs(grad2[start:end])), 0-based: the first index
\* of the largest value in the window
ArgMaxAbs(grad2, start, end) ==
    CHOOSE k \in start..(end - 1) :
        /\ \A j \in start..(end - 1) : Abs(grad2[j + 1]) <= Abs(grad2[k + 1])
        /\ \A j \in start..(k - 1) : Abs(grad2[j + 1]) < Abs(grad2[k + 1])

\* a knee search over the whole array instead of the window
KneeIndexAnywhere(sorted_scores) ==
    ArgMaxAbs(Gradient(Gradient(sorted_scores)), 0, Len(sorted_scores))

\* knee_idx, 0-based.  The normalisation to [0, 1] divides by a positive
\* number, which scales every second derivative alike; the differences are
\* taken on the scores themselves
KneeIndex(sorted_scores) ==
    LET start == Len(sorted_scores) \div 10
        end == (3 * Len(sorted_scores)) \div 10
    IN  ArgMaxAbs(Gradient(Gradient(sorted_scores)), start, end)

\* the threshold in twentieths of a point
_find_knee_threshold(values) ==
    LET sorted_scores == SortedDesc(values)
    IN  IF Len(sorted_scores) < 10 THEN Median(values)
        ELSE 20 * sorted_scores[KneeIndex(sorted_scores) + 1]

\* np.quantile(scores, quantile) with linear interpolation, in twentieths;
\* the quantile is held in tenths
Quantile(values, quantile) ==
    LET ascending == Reverse(SortedDesc(values))
        pos == (Len(values) - 1) * quantile
        lo == pos \div 10 + 1
        hi == IF pos % 10 = 0 THEN lo ELSE lo + 1
    IN  20 * ascending[lo] + 2 * (pos % 10) * (ascending[hi] - ascending[lo])

\* a threshold just above the highest total
SelectionThresholdOverTop(cfg, values) == 20 * Max(Range(values)) + 1

SelectionThreshold(cfg, values) ==
    IF cfg.selection_mode = "knee" THEN _find_knee_threshold(values)
    ELSE Quantile(values, cfg.selection_quantile)

\* a selection that leaves out the genes at the threshold
SelectedAboveOnly(row, thr) == 20 * row.total_score > thr

\* df['total_score'] >= threshold
Selected(row, thr) == 20 * row.total_score >= thr

(***************************************************************************)
(* Run directories (pgsb/io/run_manager.py)                                *)
(*                                                                         *)
(* A config dict is the sequence of its items <<key, value>> in insertion  *)
(* order, keys and scalar values as their JSON text.  A digest is a        *)
(* sequence of hexadecimal digits, 0..15 each.  SHA-1 and SHA-256 are      *)
(* stood for by a position-weighted checksum of the text: a function of    *)
(* the text alone, of fixed length, that tells apart the texts used here.  *)
(***************************************************************************)
\* character order and byte value of the texts that are hashed or sorted
TokenCode(t) ==
    CASE t = "1" -> 1
      [] t = "2" -> 2
      [] t = "3" -> 3
      [] t = "ALL" -> 4
      [] t = "BP" -> 5
      [] t = "PCD_ROS" -> 6
      [] t = "a" -> 7
      [] t = "b" -> 8
      [] t = "c" -> 9
      [] t = "go_level_filter" -> 10
      [] t = "knee" -> 11
      [] t = "output_prefix" -> 12
      [] t = "quantile" -> 13
      [] t = "rerun" -> 14
      [] t = "selection_mode" -> 15
      [] t = "test" -> 16
      [] OTHER -> 17

\* the items by ascending key, as sort_keys=True lists them
RECURSIVE SortKeys(_)
SortKeys(items) ==
    IF items = <<>> THEN <<>>
    ELSE LET first == CHOOSE i \in 1..Len(items) :
                        \A j \in 1..Len(items) :
                            TokenCode(items[i][1]) <= TokenCode(items[j][1])
             rest == [k \in 1..(Len(items) - 1) |->
                        IF k < first THEN items[k] ELSE items[k + 1]]
         IN  <<items[first]>> \o SortKeys(rest)

\* the texts of a sequence of pairs, one after the other
Flatten(pairs) == [i \in 1..(2 * Len(pairs)) |-> pairs[(i + 1) \div 2][2 - (i % 2)]]

\* json.dumps(config_dict): the items as the dict lists them
JsonDumpsInsertionOrder(config_dict) == Flatten(config_dict)

\* json.dumps(config_dict, sort_keys=True): key and value texts, item by item
json_dumps(config_dict) == Flatten(SortKeys(config_dict))

\* yaml.dump(config_dict, sort_keys=False)
yaml_dump(config_dict) == Flatten(config_dict)

RECURSIVE WeightedSum(_, _, _)
WeightedSum(text, j, i) ==
    IF j > Len(text) THEN 0
    ELSE TokenCode(text[j]) * (i + j) + WeightedSum(text, j + 1, i)

\* hashlib.sha1(...).hexdigest(): 40 hexadecimal digits
Sha1Hex(text) == [i \in 1..40 |-> (7 * i + WeightedSum(text, 1, i)) % 16]

\* hashlib.sha256(...).hexdigest(): 64 hexadecimal digits
Sha256Hex(text) == [i \in 1..64 |-> (11 * i + WeightedSum(text, 1, i)) % 16]

compute_config_hash(config_dict) == SubSeq(Sha1Hex(json_dumps(config_dict)), 1, 8)

\* run_id = timestamp__prefix__hash[__run_name]: an empty run name is falsy
RunId(timestamp, output_prefix, config_hash, run_name) ==
    IF run_name \in {None, ""}
    THEN <<timestamp, output_prefix, config_hash>>
    ELSE <<timestamp, output_prefix, config_hash, run_name>>

\* base_dir / "runs" / run_id [/ sub], a path relative to the working
\* directory; sub = "" is the run directory itself
RunPath(run_id, sub) == [anchor |-> "cwd", run |-> run_id, sub |-> sub]

\* os.path.relpath(run_path, base_path)
Relpath(path) == [path EXCEPT !.anchor = "base_dir"]

\* Path.absolute()
Absolute(path) == [path EXCEPT !.anchor = "/"]

\* latest_link.resolve(): the link lies in base_dir
Resolve(target) == [target EXCEPT !.anchor = "/"]

RunSubdirs == {"outputs", "qc", "logs"}

\* create_run_dir with mkdir(exist_ok=True) and no check of the directory
CreateRunDirNoCheck(config_dict, output_prefix, run_name, overwrite, now, existing) ==
    LET run_id == RunId(now, output_prefix, compute_config_hash(config_dict), run_name)
    IN  [raised |-> None,
         dirs |-> existing \cup {RunPath(run_id, sub) : sub \in RunSubdirs \cup {""}},
         run_info |-> [run_dir |-> RunPath(run_id, ""),
                       outputs |-> RunPath(run_id, "outputs"),
                       qc |-> RunPath(run_id, "qc"),
                       logs |-> RunPath(run_id, "logs"),
                       run_id |-> run_id]]

\* create_run_dir at the time now (whole seconds), the directories existing
\* before the call
create_run_dir(config_dict, output_prefix, run_name, overwrite, now, existing) ==
    LET run_id == RunId(now, output_prefix, compute_config_hash(config_dict), run_name)
    IN  IF RunPath(run_id, "") \in existing /\ ~overwrite
        THEN [raised |-> "FileExistsError", dirs |-> existing, run_info |-> <<>>]
        ELSE [raised |-> None,
              dirs |-> existing \cup {RunPath(run_id, sub) : sub \in RunSubdirs \cup {""}},
              run_info |-> [run_dir |-> RunPath(run_id, ""),
                            outputs |-> RunPath(run_id, "outputs"),
                            qc |-> RunPath(run_id, "qc"),
                            logs |-> RunPath(run_id, "logs"),
                            run_id |-> run_id]]

\* the pointer files of base_dir: the symlink 'latest' and latest_path.txt,
\* each absent (<<>>) or holding one path
NoLatest == [link |-> <<>>, txt |-> <<>>]

\* update_latest_symlink: the old link goes, then the symlink is made, or,
\* where the platform refuses (OSError), latest_path.txt is written
update_latest_symlink(run_dir, symlink_ok, pointer) ==
    IF symlink_ok
    THEN [pointer EXCEPT !.link = <<Relpath(run_dir)>>]
    ELSE [pointer EXCEPT !.link = <<>>, !.txt = <<Absolute(run_dir)>>]

\* order of two run ids as directory names
RECURSIVE HexLess(_, _)
HexLess(a, b) ==
    IF a = <<>> \/ b = <<>> THEN a = <<>> /\ b # <<>>
    ELSE IF Head(a) # Head(b) THEN Head(a) < Head(b)
    ELSE HexLess(Tail(a), Tail(b))

RunIdLess(a, b) ==
    IF a[1] # b[1] THEN a[1] < b[1]
    ELSE IF a[2] # b[2] THEN TokenCode(a[2]) < TokenCode(b[2])
    ELSE IF a[3] # b[3] THEN HexLess(a[3], b[3])
    ELSE IF Len(a) = 3 \/ Len(b) = 3 THEN Len(a) < Len(b)
    ELSE TokenCode(a[4]) < TokenCode(b[4])

\* get_latest_run_dir: the symlink, else the text file, else the run
\* directory that sorts last by name; <<>> is None
get_latest_run_dir(pointer, existing) ==
    IF pointer.link # <<>> THEN <<Resolve(pointer.link[1])>>
    ELSE IF pointer.txt # <<>> THEN pointer.txt
    ELSE LET run_dirs == {d \in existing : d.sub = ""}
         IN  IF run_dirs = {} THEN <<>>
             ELSE <<CHOOSE d \in run_dirs :
                        \A e \in run_dirs \ {d} : RunIdLess(e.run, d.run)>>

\* a file of a run directory: where it is
RunFile(run_dir, path) == [run |-> run_dir.run, path |-> path]

\* the files after one more is written
Written(disk, file, content) ==
    [f \in DOMAIN disk \cup {file} |-> IF f = file THEN content ELSE disk[f]]

\* the entries of manifest['files'], a listed file that is missing kept as
\* an entry of size 0
ManifestFilesAll(files_info, run_dir, disk) ==
    LET Content(file_info) ==
            IF RunFile(run_dir, file_info.path) \in DOMAIN disk
            THEN disk[RunFile(run_dir, file_info.path)] ELSE <<>>
    IN  [i \in 1..Len(files_info) |->
            [path |-> files_info[i].path,
             description |-> files_info[i].description,
             rows |-> files_info[i].rows,
             size_bytes |-> Len(Content(files_info[i])),
             sha256 |-> Sha256Hex(Content(files_info[i]))]]

\* the entries of manifest['files']: the listed files that exist, in the
\* order of the list; description '' and rows None (<<>>) when not given
ManifestFiles(files_info, run_dir, disk) ==
    LET Exists(file_info) == RunFile(run_dir, file_info.path) \in DOMAIN disk
        listed == SelectSeq(files_info, Exists)
    IN  [i \in 1..Len(listed) |->
            [path |-> listed[i].path,
             description |-> listed[i].description,
             rows |-> listed[i].rows,
             size_bytes |-> Len(disk[RunFile(run_dir, listed[i].path)]),
             sha256 |-> Sha256Hex(disk[RunFile(run_dir, listed[i].path)])]]

\* create_manifest: the content of outputs/manifest.json, or the error of
\* open() when run_dir has no outputs directory
create_manifest(files_info, run_dir, now, existing, disk) ==
    IF [run_dir EXCEPT !.sub = "outputs"] \notin existing
    THEN [raised |-> "FileNotFoundError", manifest |-> <<>>]
    ELSE [raised |-> None,
          manifest |-> <<[run_id |-> run_dir.run,
                          created |-> now,
                          files |-> ManifestFiles(files_info, run_dir, disk)]>>]

(***************************************************************************)
(* run(): one action per step                                              *)
(***************************************************************************)
scores == <<gene_scores_raw, gene_scores_capped, gene_evidence, synergy_bonuses,
            evidence_writers>>
outputs == <<df_scored, threshold, hc_file, selected_df>>
files == <<go_table, domtbl, gene_domains, ortho_df, ortho_data>>
annotations == <<arabidopsis_annotations, arabidopsis_po_context>>
standalone == <<call, ret>>
filesystem == <<run_info, dirs, disk_files, manifest, latest, clock>>

\* the head of run(): write_config_snapshot, then Step 0:
\* _load_arabidopsis_annotations, when orthology or keywords are on
LoadAnnotations(Gffs, Pos) ==
    /\ pc = "start"
    /\ pc' = "extract"
    /\ disk_files' = Written(disk_files, RunFile(run_info.run_dir, "config_used.yaml"),
                             yaml_dump(ConfigDict(config)))
    /\ IF config.orthology_enabled \/ config.arabidopsis_enabled
       THEN /\ arabidopsis_annotations' \in Gffs
            /\ arabidopsis_po_context' \in Pos
       ELSE UNCHANGED annotations
    /\ UNCHANGED <<run_info, dirs, manifest, latest, clock>>
    /\ UNCHANGED <<config, base_genes, go_annotations, scores, files, standalone, outputs>>

\* Step 1: _extract_base_genes; a missing GO file ends the run
ExtractBaseGenes ==
    /\ pc = "extract"
    /\ IF config.go_file_exists
       THEN /\ base_genes' = _extract_base_genes(config, go_table).genes
            /\ go_annotations' = _extract_base_genes(config, go_table).go_annotations
            /\ pc' = "init"
       ELSE /\ pc' = "aborted"
            /\ UNCHANGED <<base_genes, go_annotations>>
    /\ UNCHANGED <<config, filesystem, scores, files, annotations, standalone, outputs>>

\* the initialisation loop of run()
InitScoring ==
    /\ pc = "init"
    /\ pc' = "go"
    /\ gene_scores_raw' = [g \in ScoringKeys(base_genes) |-> ZeroRaw]
    /\ gene_scores_capped' = [g \in ScoringKeys(base_genes) |-> ZeroCapped]
    /\ gene_evidence' = [g \in ScoringKeys(base_genes) |-> EmptyEvidence]
    /\ synergy_bonuses' = [g \in ScoringKeys(base_genes) |-> <<>>]
    /\ UNCHANGED evidence_writers
    /\ UNCHANGED <<config, filesystem, base_genes, go_annotations, files, annotations, standalone, outputs>>

\* Step 2: _score_go_evidence; min() of no scores raises and ends the run
ScoreGoEvidence ==
    /\ pc = "go"
    /\ IF base_genes = <<>>
       THEN /\ pc' = "aborted"
            /\ UNCHANGED scores
       ELSE /\ pc' = "domain"
            /\ gene_scores_raw' =
                  [g \in DOMAIN gene_scores_raw |->
                      IF g \in Range(base_genes)
                      THEN [gene_scores_raw[g] EXCEPT
                              !.go = GoScoreGene(config, go_annotations, g).raw_score]
                      ELSE gene_scores_raw[g]]
            /\ gene_scores_capped' =
                  [g \in DOMAIN gene_scores_capped |->
                      IF g \in Range(base_genes)
                      THEN [gene_scores_capped[g] EXCEPT
                              !.go = Capped(GoScoreGene(config, go_annotations, g).raw_score,
                                         config.caps.go_max)]
                      ELSE gene_scores_capped[g]]
            /\ gene_evidence' =
                  [g \in DOMAIN gene_evidence |->
                      IF g \in Range(base_genes)
                      THEN [gene_evidence[g] EXCEPT
                              !.go_terms = SortedGoTerms(Range(GoScoreGene(config, go_annotations, g).go_terms)),
                              !.go_categories = GoScoreGene(config, go_annotations, g).categories]
                      ELSE gene_evidence[g]]
            /\ evidence_writers' =
                  Wrote(evidence_writers, "_score_go_evidence", {"go_terms", "go_categories"})
            /\ UNCHANGED synergy_bonuses
    /\ UNCHANGED <<config, filesystem, base_genes, go_annotations, files, annotations, standalone, outputs>>

\* what the environment of the domain scan does: the early returns of
\* _score_domain_evidence and scan_genes, the uncaught FileNotFoundError of
\* subprocess.run when hmmscan is not installed, or a written table
DomainScanOutcomes ==
    {"paths_not_configured", "database_missing", "fasta_missing", "database_not_indexed",
     "no_proteins_extracted", "hmmscan_failed", "hmmscan_not_installed", "scanned"}

\* Step 3: _score_domain_evidence
ScoreDomainEvidence(Tables) ==
    /\ pc = "domain"
    /\ IF ~config.domain_enabled
       THEN /\ pc' = "orthology"
            /\ UNCHANGED <<scores, domtbl, gene_domains>>
       ELSE \E outcome \in DomainScanOutcomes :
              IF outcome = "hmmscan_not_installed"
              THEN /\ pc' = "aborted"
                   /\ UNCHANGED <<scores, domtbl, gene_domains>>
              ELSE IF outcome # "scanned"
              THEN /\ pc' = "orthology"
                   /\ UNCHANGED <<scores, domtbl, gene_domains>>
              ELSE \E table \in Tables :
                     LET parsed == parse_domtbl(table, config.evalue_threshold)
                         categories == _categorize_genes(config, gene_evidence, base_genes)
                         Matched(g) == DomainMatches(config, categories, parsed, g)
                     IN  /\ pc' = "orthology"
                         /\ domtbl' = table
                         /\ gene_domains' = parsed
                         /\ gene_scores_raw' =
                               [g \in DOMAIN gene_scores_raw |->
                                   IF g \in Range(base_genes)
                                   THEN [gene_scores_raw[g] EXCEPT
                                           !.domain = DomainRaw(config, Matched(g))]
                                   ELSE gene_scores_raw[g]]
                         /\ gene_scores_capped' =
                               [g \in DOMAIN gene_scores_capped |->
                                   IF g \in Range(base_genes)
                                   THEN [gene_scores_capped[g] EXCEPT
                                           !.domain = Capped(DomainRaw(config, Matched(g)),
                                                          config.caps.domain_max)]
                                   ELSE gene_scores_capped[g]]
                         /\ gene_evidence' =
                               [g \in DOMAIN gene_evidence |->
                                   IF g \in Range(base_genes)
                                   THEN [gene_evidence[g] EXCEPT
                                           !.matched_domains = SortedMatches(Matched(g))]
                                   ELSE gene_evidence[g]]
                         /\ evidence_writers' =
                               Wrote(evidence_writers, "_score_domain_evidence",
                                     {"matched_domains"})
                         /\ UNCHANGED synergy_bonuses
    /\ UNCHANGED <<config, filesystem, go_table, base_genes, go_annotations, ortho_df, ortho_data,
                   annotations, standalone, outputs>>

\* Step 4: _score_orthology_evidence; an unreadable file is the early
\* return, a token that float() rejects ends the run
ScoreOrthologyEvidence(Files) ==
    /\ pc = "orthology"
    /\ IF ~config.orthology_enabled
       THEN /\ pc' = "tair"
            /\ UNCHANGED <<scores, ortho_df, ortho_data>>
       ELSE \E file \in Files :
              IF ~file.readable
              THEN /\ pc' = "tair"
                   /\ UNCHANGED <<scores, ortho_df, ortho_data>>
              ELSE LET parsed == _parse_orthology_file(file.rows, config.seurat_suffix)
                       data == parsed.data
                       Scored(g) == g \in OrthoScored(base_genes, data)
                   IN  IF parsed.error
                       THEN /\ pc' = "aborted"
                            /\ ortho_df' = file.rows
                            /\ UNCHANGED <<scores, ortho_data>>
                       ELSE /\ pc' = "tair"
                            /\ ortho_df' = file.rows
                            /\ ortho_data' = data
                            /\ gene_scores_raw' =
                                  [g \in DOMAIN gene_scores_raw |->
                                      IF Scored(g)
                                      THEN [gene_scores_raw[g] EXCEPT
                                              !.orthology = OrthoRaw(config, data[g])]
                                      ELSE gene_scores_raw[g]]
                            /\ gene_scores_capped' =
                                  [g \in DOMAIN gene_scores_capped |->
                                      IF Scored(g)
                                      THEN [gene_scores_capped[g] EXCEPT
                                              !.orthology = Capped(OrthoRaw(config, data[g]),
                                                                config.caps.orthology_max)]
                                      ELSE gene_scores_capped[g]]
                            /\ gene_evidence' =
                                  [g \in DOMAIN gene_evidence |->
                                      IF Scored(g)
                                      THEN LET best_orth == BestOrth(data[g])
                                               known == best_orth # None
                                                        /\ best_orth \in DOMAIN arabidopsis_annotations
                                           IN [gene_evidence[g] EXCEPT
                                                 !.arabidopsis_orthologs = data[g].arabidopsis_hits,
                                                 !.best_ortholog = best_orth,
                                                 !.best_ortholog_score = data[g].best_score,
                                                 !.orthology_class = data[g].classification,
                                                 !.at_symbol =
                                                     IF known THEN arabidopsis_annotations[best_orth].symbol
                                                     ELSE @,
                                                 !.at_annotation =
                                                     IF known
                                                     THEN arabidopsis_annotations[best_orth].annotation_text
                                                     ELSE @]
                                      ELSE gene_evidence[g]]
                            /\ evidence_writers' =
                                  Wrote(evidence_writers, "_score_orthology_evidence",
                                        (IF \E g \in Range(base_genes) : Scored(g)
                                         THEN {"arabidopsis_orthologs", "best_ortholog",
                                               "best_ortholog_score", "orthology_class"}
                                         ELSE {})
                                        \cup
                                        (IF \E g \in Range(base_genes) :
                                               /\ Scored(g)
                                               /\ BestOrth(data[g]) # None
                                               /\ BestOrth(data[g]) \in DOMAIN arabidopsis_annotations
                                         THEN {"at_symbol", "at_annotation"}
                                         ELSE {}))
                            /\ UNCHANGED synergy_bonuses
    /\ UNCHANGED <<config, filesystem, go_table, base_genes, go_annotations, domtbl, gene_domains,
                   annotations, standalone, outputs>>

\* Step 5: _score_arabidopsis_keywords
ScoreArabidopsisKeywords ==
    /\ pc = "tair"
    /\ pc' = "po"
    /\ IF \/ ~config.arabidopsis_enabled
          \/ DOMAIN arabidopsis_annotations = {}
          \/ config.keywords = <<>>
       THEN UNCHANGED scores
       ELSE LET Scored(g) == g \in Range(base_genes)
                             /\ HasEntry(gene_evidence, g, arabidopsis_annotations)
                AtInfo(g) == arabidopsis_annotations[gene_evidence[g].best_ortholog]
                Hits(g) == KeywordHits(config.keywords, AtInfo(g))
            IN  /\ gene_scores_raw' =
                      [g \in DOMAIN gene_scores_raw |->
                          IF Scored(g)
                          THEN [gene_scores_raw[g] EXCEPT
                                  !.tair = Len(Hits(g)) * config.tair_keywords_hit]
                          ELSE gene_scores_raw[g]]
                /\ gene_scores_capped' =
                      [g \in DOMAIN gene_scores_capped |->
                          IF Scored(g)
                          THEN [gene_scores_capped[g] EXCEPT
                                  !.tair = Capped(Len(Hits(g)) * config.tair_keywords_hit,
                                               config.caps.tair_max)]
                          ELSE gene_scores_capped[g]]
                /\ gene_evidence' =
                      [g \in DOMAIN gene_evidence |->
                          IF Scored(g)
                          THEN [gene_evidence[g] EXCEPT
                                  !.at_symbol = AtInfo(g).symbol,
                                  !.at_annotation = AtInfo(g).annotation_text,
                                  !.tair_keyword_hits = Hits(g)]
                          ELSE gene_evidence[g]]
                /\ evidence_writers' =
                      Wrote(evidence_writers, "_score_arabidopsis_keywords",
                            IF \E g \in Range(base_genes) : Scored(g)
                            THEN {"at_symbol", "at_annotation", "tair_keyword_hits"}
                            ELSE {})
                /\ UNCHANGED synergy_bonuses
    /\ UNCHANGED <<config, filesystem, base_genes, go_annotations, files, annotations, standalone, outputs>>

\* Step 6: _score_po_context
ScorePoContext ==
    /\ pc = "po"
    /\ pc' = "synergy"
    /\ IF ~config.po_enabled \/ DOMAIN arabidopsis_po_context = {}
       THEN UNCHANGED scores
       ELSE LET Scored(g) == g \in Range(base_genes)
                             /\ HasEntry(gene_evidence, g, arabidopsis_po_context)
                PoInfo(g) == arabidopsis_po_context[gene_evidence[g].best_ortholog]
            IN  /\ gene_scores_raw' =
                      [g \in DOMAIN gene_scores_raw |->
                          IF Scored(g)
                          THEN [gene_scores_raw[g] EXCEPT
                                  !.po = Len(PoInfo(g).hits) * config.po_keywords_hit]
                          ELSE gene_scores_raw[g]]
                /\ gene_scores_capped' =
                      [g \in DOMAIN gene_scores_capped |->
                          IF Scored(g)
                          THEN [gene_scores_capped[g] EXCEPT
                                  !.po = Capped(Len(PoInfo(g).hits) * config.po_keywords_hit,
                                             config.caps.po_max)]
                          ELSE gene_scores_capped[g]]
                /\ gene_evidence' =
                      [g \in DOMAIN gene_evidence |->
                          IF Scored(g)
                          THEN [gene_evidence[g] EXCEPT
                                  !.po_terms = FirstN(PoInfo(g).po_terms, 5),
                                  !.po_context_hits = PoInfo(g).hits]
                          ELSE gene_evidence[g]]
                /\ evidence_writers' =
                      Wrote(evidence_writers, "_score_po_context",
                            IF \E g \in Range(base_genes) : Scored(g)
                            THEN {"po_terms", "po_context_hits"}
                            ELSE {})
                /\ UNCHANGED synergy_bonuses
    /\ UNCHANGED <<config, filesystem, base_genes, go_annotations, files, annotations, standalone, outputs>>

\* Step 7: _compute_synergy_bonuses; a threshold int() rejects ends the run
ComputeSynergyBonuses ==
    /\ pc = "synergy"
    /\ IF config.synergy_rules = <<>>
       THEN /\ pc' = "total"
            /\ UNCHANGED scores
       ELSE IF \E g \in Range(base_genes) : GeneSynergy(config, gene_evidence[g]).error
       THEN /\ pc' = "aborted"
            /\ UNCHANGED scores
       ELSE /\ pc' = "total"
            /\ gene_scores_raw' =
                  [g \in DOMAIN gene_scores_raw |->
                      IF g \in Range(base_genes)
                      THEN [gene_scores_raw[g] EXCEPT
                              !.synergy = GeneSynergy(config, gene_evidence[g]).total_synergy]
                      ELSE gene_scores_raw[g]]
            /\ gene_scores_capped' =
                  [g \in DOMAIN gene_scores_capped |->
                      IF g \in Range(base_genes)
                      THEN [gene_scores_capped[g] EXCEPT
                              !.synergy = Capped(GeneSynergy(config, gene_evidence[g]).total_synergy,
                                              config.caps.synergy_max)]
                      ELSE gene_scores_capped[g]]
            /\ synergy_bonuses' =
                  [g \in DOMAIN synergy_bonuses |->
                      IF g \in Range(base_genes)
                      THEN synergy_bonuses[g] \o GeneSynergy(config, gene_evidence[g]).triggers
                      ELSE synergy_bonuses[g]]
            /\ UNCHANGED <<gene_evidence, evidence_writers>>
    /\ UNCHANGED <<config, filesystem, base_genes, go_annotations, files, annotations, standalone, outputs>>

\* a total computed in place of the synergy step
ComputeTotalScoresBeforeSynergy ==
    /\ pc = "synergy"
    /\ pc' = "write"
    /\ gene_scores_capped' =
          [g \in DOMAIN gene_scores_capped |->
              [gene_scores_capped[g] EXCEPT !.total = TotalOf(gene_scores_capped[g])]]
    /\ UNCHANGED <<gene_scores_raw, gene_evidence, synergy_bonuses, evidence_writers>>
    /\ UNCHANGED <<config, filesystem, base_genes, go_annotations, files, annotations, standalone, outputs>>

\* Step 8: _compute_total_scores
ComputeTotalScores ==
    /\ pc = "total"
    /\ pc' = "write"
    /\ gene_scores_capped' =
          [g \in DOMAIN gene_scores_capped |->
              IF g \in Range(base_genes)
              THEN [gene_scores_capped[g] EXCEPT !.total = TotalOf(gene_scores_capped[g])]
              ELSE gene_scores_capped[g]]
    /\ UNCHANGED <<gene_scores_raw, gene_evidence, synergy_bonuses, evidence_writers>>
    /\ UNCHANGED <<config, filesystem, base_genes, go_annotations, files, annotations, standalone, outputs>>

\* the files_info list of _generate_manifest; the output prefix is left out
\* of the file names
FilesInfo(n_total, n_high_conf) ==
    << [path |-> "outputs/genes.base.txt",
        description |-> "Base gene list (IDs only)", rows |-> <<n_total>>],
       [path |-> "outputs/genes.scored.tsv",
        description |-> "Complete scored table with all evidence", rows |-> <<n_total>>],
       [path |-> "outputs/genes.ALL_overview.tsv",
        description |-> "Enriched overview table for all genes", rows |-> <<n_total>>],
       [path |-> "outputs/genes.high_confidence.txt",
        description |-> "High-confidence genes (IDs only)", rows |-> <<n_high_conf>>],
       [path |-> "outputs/genes.HIGH_overview.tsv",
        description |-> "Enriched overview table for high-confidence genes",
        rows |-> <<n_high_conf>>],
       [path |-> "outputs/genes.high_confidence.summary.txt",
        description |-> "Selection method and statistics", rows |-> <<>>],
       [path |-> "config_used.yaml",
        description |-> "Configuration snapshot for this run", rows |-> <<>>] >>

\* the files after a sequence of <<path, content>> is written to run_dir
RECURSIVE WriteAll(_, _, _)
WriteAll(disk, run_dir, contents) ==
    IF contents = <<>> THEN disk
    ELSE WriteAll(Written(disk, RunFile(run_dir, Head(contents)[1]), Head(contents)[2]),
                  run_dir, Tail(contents))

\* the files _write_outputs and _select_high_confidence write, in the order
\* of the code: a table stands in a file as its column of gene ids
OutputFiles(genes, rows, selected, mode) ==
    LET ids == Flatten([i \in 1..Len(rows) |-> rows[i].brachy_gene_id])
        hc == Flatten([i \in 1..Len(selected) |-> selected[i].brachy_gene_id])
    IN  << <<"outputs/genes.base.txt", Flatten(genes)>>,
           <<"outputs/genes.scored.tsv", ids>>,
           <<"outputs/genes.ALL_overview.tsv", ids>>,
           <<"outputs/genes.high_confidence.txt", hc>>,
           <<"outputs/genes.high_confidence.summary.txt", <<mode>>>> >>
        \o (IF Len(selected) > 0
            THEN << <<"outputs/genes.HIGH_overview.tsv", hc>>,
                    <<"outputs/genes.HIGH_category.tsv", hc>> >>
            ELSE <<>>)

\* Step 9: _write_outputs, with _select_high_confidence and
\* _generate_manifest; the in-memory scores stay as they are
WriteOutputs ==
    /\ pc = "write"
    /\ pc' = "done"
    /\ \E order \in SortedOrders(base_genes, gene_scores_capped) :
          LET Row(g) == ScoredRow(g, gene_scores_raw[g], gene_scores_capped[g],
                                  gene_evidence[g], synergy_bonuses[g])
              rows == [i \in 1..Len(base_genes) |-> Row(order[i])]
              thr == SelectionThreshold(config,
                                        [i \in 1..Len(rows) |-> rows[i].total_score])
              IsSelected(row) == Selected(row, thr)
              selected == SelectSeq(rows, IsSelected)
          IN  /\ df_scored' = rows
              /\ threshold' = thr
              /\ selected_df' = selected
              /\ hc_file' = [i \in 1..Len(selected) |-> selected[i].brachy_gene_id]
              /\ LET written == WriteAll(disk_files, run_info.run_dir,
                                         OutputFiles(base_genes, rows, selected,
                                                     config.selection_mode))
                 IN  /\ disk_files' = written
                     /\ manifest' = create_manifest(FilesInfo(Len(base_genes), Len(selected)),
                                                    run_info.run_dir, clock, dirs,
                                                    written).manifest
    /\ UNCHANGED <<run_info, dirs, latest, clock>>
    /\ UNCHANGED <<config, base_genes, go_annotations, scores, files, annotations, standalone>>

\* main() with the pointer update in a finally block
UpdateLatestAfterAnyRun ==
    /\ pc \in {"done", "aborted"}
    /\ pc' = IF pc = "done" THEN "finished" ELSE "failed"
    /\ \E symlink_ok \in BOOLEAN :
          latest' = update_latest_symlink(run_info.run_dir, symlink_ok, latest)
    /\ UNCHANGED <<run_info, dirs, disk_files, manifest, clock>>
    /\ UNCHANGED <<config, base_genes, go_annotations, scores, files, annotations,
                   standalone, outputs>>

\* main(): update_latest_symlink once run() has returned
UpdateLatest ==
    /\ pc = "done"
    /\ pc' = "finished"
    /\ \E symlink_ok \in BOOLEAN :
          latest' = update_latest_symlink(run_info.run_dir, symlink_ok, latest)
    /\ UNCHANGED <<run_info, dirs, disk_files, manifest, clock>>
    /\ UNCHANGED <<config, base_genes, go_annotations, scores, files, annotations,
                   standalone, outputs>>

(***************************************************************************)
(* Inputs of the pipeline run                                              *)
(***************************************************************************)
MaxRows == 2

P1 == <<Core1, ".1", ".p">>
P1b == <<Core1, ".2", ".p">>
P2 == <<Core2, ".1", ".p">>
PX == <<Bradi, ".1", ".p">>

GoRow(gene, go, level) == [gene |-> gene, GO |-> go, level |-> level]

RunGoRows ==
    {GoRow(P1, GO_PCD, "BP"), GoRow(P2, GO_ROS, "BP"), GoRow(P2, GO_SEN, "BP")}

RunGoTables == SeqsUpTo(RunGoRows, MaxRows)

RunConfigs ==
    { BaseConfig,
      [BaseConfig EXCEPT !.go_weights = GoWeights2, !.go_level_filter = "ALL"],
      [BaseConfig EXCEPT !.go_file_exists = FALSE],
      [BaseConfig EXCEPT !.domain_enabled = FALSE],
      [BaseConfig EXCEPT !.orthology_enabled = FALSE],
      [BaseConfig EXCEPT !.arabidopsis_enabled = FALSE],
      [BaseConfig EXCEPT !.po_enabled = FALSE],
      [BaseConfig EXCEPT !.domain_enabled = FALSE, !.orthology_enabled = FALSE,
                         !.arabidopsis_enabled = FALSE, !.po_enabled = FALSE],
      [BaseConfig EXCEPT !.synergy_rules = <<>>, !.keywords = <<>>],
      [BaseConfig EXCEPT !.keywords = <<"senescence", "protease", "senescence">>],
      [BaseConfig EXCEPT !.selection_mode = "quantile"],
      [BaseConfig EXCEPT !.synergy_rules =
          <<[name |-> "keywords", if_all |-> <<"tair_keyword_hits>=two">>, bonus |-> 20]>>] }

DomRow(query, name, pfam, full, dom) ==
    [comment |-> FALSE, nfields |-> 23, target_name |-> name,
     target_accession |-> <<pfam, ".26">>, query_name |-> query,
     full_evalue |-> full, domain_evalue |-> dom]

RunDomTables ==
    { <<>>,
      <<DomRow(P1, "Peptidase_C14", PF_CASPASE, 0 - 12, 0 - 10),
        DomRow(P1, "NB-ARC", PF_NBARC, 0 - 9, 0 - 8)>>,
      <<DomRow(P2, "Peptidase_C14", PF_CASPASE, 0 - 12, 0 - 10),
        DomRow(P2, "NAM", PF_NAM, 0 - 7, 0 - 6)>>,
      <<DomRow(P1, "Peptidase_C14", PF_CASPASE, 0 - 12, 0 - 3),
        DomRow(P2, "peroxidase", PF_PEROX, 0 - 7, 0 - 6),
        DomRow(P1b, "NAM", PF_NAM, 0 - 7, 0 - 6)>> }

OrthoRow(a, b) == [OrtoA |-> a, OrtoB |-> b]

RunOrthoFiles ==
    { [readable |-> FALSE, rows |-> <<>>],
      [readable |-> TRUE, rows |->
          <<OrthoRow(<<Core1, ".1">>, <<"AT1G01010.1", "1.000">>),
            OrthoRow(<<Core2, ".1">>, <<"AT2G02020.1", "0.700", "AT3G03030.1", "0.900">>)>>],
      [readable |-> TRUE, rows |->
          <<OrthoRow(<<Core1, ".1">>, <<"AT3G03030.1", "0.300">>),
            OrthoRow(<<Bradi>>, <<"AT1G01010.1", "1.000">>)>>],
      [readable |-> TRUE, rows |->
          <<OrthoRow(<<Core1, ".1">>, <<"AT1G01010.1", "0.900", "AT2G02020.1", "0.800">>),
            OrthoRow(<<Core2, ".1">>, <<"AT1G01010.1", "1.000", "100%">>)>>],
      [readable |-> TRUE, rows |->
          <<OrthoRow(<<Core2, ".1">>, <<"AT1G01010.1", "100%">>)>>],
      [readable |-> TRUE, rows |->
          <<OrthoRow(<<Core1, ".1">>, <<"AT1G01010.1", "0.700">>),
            OrthoRow(<<Core2, ".1">>, <<"AT2G02020.1", "0.900", "AT3G03030.1", "0.800">>)>>] }

Gff1 ==
    (AT1 :> [symbol |-> "SAG12", annotation_text |-> <<"Senescence", "protease">>])
    @@ (AT3 :> [symbol |-> "MC1", annotation_text |-> <<"metacaspase">>])

Po1 ==
    (AT1 :> [po_terms |-> <<"leaf senescence stage", "flower", "senescent leaf", "necrosis">>,
             hits |-> <<"leaf senescence stage", "senescent leaf", "necrosis">>])
    @@ (AT2 :> [po_terms |-> <<"root", "hypersensitive response">>,
                hits |-> <<"hypersensitive response">>])

RunGffs == {<<>>, Gff1}
RunPos == {<<>>, Po1}

\* the run of an earlier second, completed: its directories exist and
\* 'latest' points at it
PrevRun == create_run_dir(ConfigDict(BaseConfig), OutputPrefix, None, FALSE, 0, {})

\* the data structures of __init__, for a configuration and a GO file
InitFields(cfg, table) ==
    /\ config = cfg
    /\ go_table = table
    /\ base_genes = <<>>
    /\ go_annotations = <<>>
    /\ gene_scores_raw = <<>>
    /\ gene_scores_capped = <<>>
    /\ gene_evidence = <<>>
    /\ synergy_bonuses = <<>>
    /\ domtbl = <<>>
    /\ gene_domains = <<>>
    /\ ortho_df = <<>>
    /\ ortho_data = <<>>
    /\ arabidopsis_annotations = <<>>
    /\ arabidopsis_po_context = <<>>
    /\ evidence_writers = [f \in DOMAIN EmptyEvidence |-> {}]
    /\ df_scored = <<>>
    /\ threshold = 0
    /\ hc_file = <<>>
    /\ selected_df = <<>>

\* the state __init__ leaves: the data structures and the run directory of
\* this second
Constructed(cfg, table) ==
    /\ InitFields(cfg, table)
    /\ clock = 1
    /\ LET created == create_run_dir(ConfigDict(cfg), OutputPrefix, None, FALSE,
                                     clock, PrevRun.dirs)
       IN  /\ run_info = created.run_info
           /\ dirs = created.dirs
    /\ disk_files = <<>>
    /\ manifest = <<>>
    /\ latest = update_latest_symlink(PrevRun.run_info.run_dir, TRUE, NoLatest)

Init ==
    /\ pc = "start"
    /\ \E cfg \in RunConfigs, table \in RunGoTables : Constructed(cfg, table)
    /\ call = <<>>
    /\ ret = <<>>

Next ==
    \/ LoadAnnotations(RunGffs, RunPos)
    \/ ExtractBaseGenes
    \/ InitScoring
    \/ ScoreGoEvidence
    \/ ScoreDomainEvidence(RunDomTables)
    \/ ScoreOrthologyEvidence(RunOrthoFiles)
    \/ ScoreArabidopsisKeywords
    \/ ScorePoContext
    \/ ComputeSynergyBonuses
    \/ ComputeTotalScores
    \/ WriteOutputs
    \/ UpdateLatest

Spec == Init /\ [][Next]_vars

(***************************************************************************)
(* Properties of the pipeline run                                          *)
(***************************************************************************)
\* caps[...] of each layer
CapOf(cfg, layer) ==
    CASE layer = "go"        -> cfg.caps.go_max
      [] layer = "domain"    -> cfg.caps.domain_max
      [] layer = "orthology" -> cfg.caps.orthology_max
      [] layer = "tair"      -> cfg.caps.tair_max
      [] layer = "po"        -> cfg.caps.po_max
      [] layer = "synergy"   -> cfg.caps.synergy_max

ScoringStagesRan == pc \in {"total", "write", "done"}

\* C1: once the scoring stages have run, every base gene has, in each of the
\* six layers, capped = min(raw, cap), capped <= cap and capped >= 0,
\* whether the layer ran, was disabled or returned early.
C1_CappedIsMinOfRawAndCap ==
    ScoringStagesRan =>
        \A g \in Range(base_genes) : \A layer \in Layers :
            /\ \/ /\ gene_scores_raw[g][layer] <= CapOf(config, layer)
                  /\ gene_scores_capped[g][layer] = gene_scores_raw[g][layer]
               \/ /\ gene_scores_raw[g][layer] > CapOf(config, layer)
                  /\ gene_scores_capped[g][layer] = CapOf(config, layer)
            /\ gene_scores_capped[g][layer] <= CapOf(config, layer)
            /\ gene_scores_capped[g][layer] >= 0

\* a finished run in which one gene is over the cap in the GO, domain and
\* orthology layers and another layer stayed at zero for it
C1_Witness ==
    /\ pc = "done"
    /\ \E g \in Range(base_genes) :
          /\ gene_scores_raw[g].go > config.caps.go_max
          /\ gene_scores_raw[g].domain > config.caps.domain_max
          /\ gene_scores_raw[g].orthology > config.caps.orthology_max
          /\ gene_scores_raw[g].po = 0

\* C2: once _compute_total_scores has run, the total of every base gene is
\* the sum of its six capped layer scores, each counted once.
C2_TotalIsSumOfCapped ==
    pc \in {"write", "done"} =>
        \A g \in Range(base_genes) :
            gene_scores_capped[g].total =
                gene_scores_capped[g].go + gene_scores_capped[g].domain
                + gene_scores_capped[g].orthology + gene_scores_capped[g].tair
                + gene_scores_capped[g].po + gene_scores_capped[g].synergy

\* a finished run with a gene whose raw GO score is above its capped one and
\* whose synergy bonus is part of the total
C2_Witness ==
    /\ pc = "done"
    /\ \E g \in Range(base_genes) :
          /\ gene_scores_raw[g].go > gene_scores_capped[g].go
          /\ gene_scores_capped[g].synergy > 0
          /\ gene_scores_capped[g].tair > 0
          /\ gene_scores_capped[g].total > gene_scores_capped[g].go

\* C7: from the initialisation loop on, the four per-gene dictionaries have
\* exactly the base genes as keys.
C7_KeysAreBaseGenes ==
    pc \notin {"start", "extract", "init"} =>
        /\ DOMAIN gene_scores_raw = Range(base_genes)
        /\ DOMAIN gene_scores_capped = Range(base_genes)
        /\ DOMAIN gene_evidence = Range(base_genes)
        /\ DOMAIN synergy_bonuses = Range(base_genes)

\* a finished run whose orthology table and domain table both name a gene
\* that is not a base gene
C7_Witness ==
    /\ pc = "done"
    /\ base_genes # <<>>
    /\ \E g \in DOMAIN ortho_data : g \notin Range(base_genes)
    /\ \E g \in DOMAIN gene_domains : g \notin Range(base_genes)

(***************************************************************************)
(* _classify_orthology called on its own                                   *)
(***************************************************************************)
MaxHits == 3

ScoreValues == {3, 7, 8, 9, 10}

\* evidence.orthology_evidence.one_to_one_rule, with the documented
\* defaults 0.8 and 0.2 and a configured max_hits
OneToOneRules ==
    {[max_hits |-> m, min_best_score |-> 8, min_second_best_gap |-> 2] : m \in 1..MaxHits}

ClassifyCalls ==
    {[n_hits |-> Len(sc), scores |-> sc, rule |-> r] :
        sc \in SeqsUpTo(ScoreValues, MaxHits), r \in OneToOneRules}

InitClassify ==
    /\ pc = "call_classify"
    /\ Constructed(BaseConfig, <<>>)
    /\ call \in ClassifyCalls
    /\ ret = <<>>

CallClassifyOrthology ==
    /\ pc = "call_classify"
    /\ pc' = "returned_classify"
    /\ ret' = [ranker  |-> _classify_orthology(call.n_hits, call.scores),
               archive |-> ArchiveClassifyOrthology(call.n_hits, call.scores, call.rule)]
    /\ UNCHANGED <<config, filesystem, base_genes, go_annotations, scores, files, annotations, call, outputs>>

NextClassify == CallClassifyOrthology

SpecClassify == InitClassify /\ [][NextClassify]_vars

\* C3: with at least one hit, a best score below 0.8 gives low_confidence
\* whatever the hit count, and a single hit with best score >= 0.8 gives
\* one_to_one.
C3_ClassifyLowAndSingle ==
    (pc = "returned_classify" /\ call.n_hits >= 1) =>
        /\ Max(Range(call.scores)) < 8 => ret.ranker = "low_confidence"
        /\ (call.n_hits = 1 /\ Max(Range(call.scores)) >= 8) => ret.ranker = "one_to_one"

\* a single hit whose score is exactly 0.8 was classified one_to_one
C3_Witness ==
    /\ pc = "returned_classify"
    /\ call.scores = <<8>>
    /\ ret.ranker = "one_to_one"

\* C4: with more than one hit and best score >= min_best_score the class is
\* one_to_one exactly when the gap of the two top scores is >=
\* min_second_best_gap and the hit count is <= max_hits, else one_to_many.
C4_MultiHitRule ==
    (/\ pc = "returned_classify"
     /\ call.n_hits > 1
     /\ Max(Range(call.scores)) >= call.rule.min_best_score) =>
        LET sorted_scores == SortedDesc(call.scores)
            one_to_one == /\ sorted_scores[1] - sorted_scores[2] >= call.rule.min_second_best_gap
                          /\ call.n_hits <= call.rule.max_hits
        IN  ret.ranker = (IF one_to_one THEN "one_to_one" ELSE "one_to_many")

(***************************************************************************)
(* The three raw-id mappings applied to one raw id                         *)
(***************************************************************************)
MaxIdLen == 4

\* raw ids are any text of a file column: beside the id tokens, a lone "."
\* and a lone "p"
RawIdTokens == IdTokens \cup {".", "p"}

IdMapCalls ==
    [raw : SeqsUpTo(RawIdTokens, MaxIdLen) \ {<<>>},
     protein_to_core_regex : {"^(LOCUS)", "(LOCUS)"},
     seurat_suffix : {".v1.2", ".v3.1"}]

InitIdMap ==
    /\ pc = "call_idmap"
    /\ Constructed(BaseConfig, <<>>)
    /\ call \in IdMapCalls
    /\ ret = <<>>

\* the GeneID the raw id gets in the GO table, the domain table and the
\* orthology table, and the GeneID each mapper gives when it is handed its
\* own output
MapRawId ==
    /\ pc = "call_idmap"
    /\ pc' = "returned_idmap"
    /\ LET go == GoGeneId(call.protein_to_core_regex, call.seurat_suffix, call.raw)
           domain == extract_gene_id(call.raw)
       IN  ret' = [go        |-> go,
                   domain    |-> domain,
                   orthology |-> OrthoGeneId(call.seurat_suffix, call.raw),
                   go_again     |-> GoGeneId(call.protein_to_core_regex, call.seurat_suffix, go),
                   domain_again |-> extract_gene_id(domain)]
    /\ UNCHANGED <<config, filesystem, base_genes, go_annotations, scores, files, annotations, call, outputs>>

NextIdMap == MapRawId

SpecIdMap == InitIdMap /\ [][NextIdMap]_vars

\* C8: a raw id gets the same GeneID in the GO table, the domain table and
\* the orthology table, or is unmapped in all three.
C8_SameMappingEverywhere ==
    pc = "returned_idmap" =>
        /\ ret.go = ret.domain
        /\ ret.domain = ret.orthology

\* C21: a mapper handed its own output gives that GeneID again or no
\* mapping, never a different GeneID: the configured-regex mapper and
\* extract_gene_id alike.
C21_MappingIdempotent ==
    pc = "returned_idmap" =>
        /\ ret.go_again \in {ret.go, NoId}
        /\ ret.domain_again \in {ret.domain, NoId}

(***************************************************************************)
(* create_run_dir and compute_config_hash called on their own, as the      *)
(* seconds pass                                                            *)
(***************************************************************************)
MaxClock == 1
MaxRunDirs == 2

\* dicts as in test_config_hash_stable and test_config_hash_changes
RunDirConfigs ==
    { << <<"a", "1">>, <<"b", "2">> >>,
      << <<"b", "2">>, <<"a", "1">> >>,
      << <<"a", "1">>, <<"b", "3">> >> }

RunNames == {None, "", "rerun"}

InitRunDir ==
    /\ pc = "idle"
    /\ InitFields(BaseConfig, <<>>)
    /\ run_info = <<>>
    /\ dirs = {}
    /\ disk_files = <<>>
    /\ manifest = <<>>
    /\ latest = NoLatest
    /\ clock = 0
    /\ call = <<>>
    /\ ret = [value |-> <<>>, fresh |-> <<>>]

\* the clock of datetime.now() reaches the next second
Tick ==
    /\ clock < MaxClock
    /\ clock' = clock + 1
    /\ UNCHANGED <<pc, run_info, dirs, disk_files, manifest, latest>>
    /\ UNCHANGED <<config, base_genes, go_annotations, scores, files, annotations,
                   standalone, outputs>>

\* how often each run id was created by a call without overwrite
Counted(fresh, run_id) ==
    [id \in DOMAIN fresh \cup {run_id} |->
        (IF id \in DOMAIN fresh THEN fresh[id] ELSE 0) + (IF id = run_id THEN 1 ELSE 0)]

\* one call of create_run_dir; ret.fresh counts, per run id, the calls
\* without overwrite that succeeded
CallCreateRunDir ==
    /\ Cardinality({d \in dirs : d.sub = ""}) < MaxRunDirs
    /\ pc' = "returned_create_run_dir"
    /\ \E config_dict \in RunDirConfigs, run_name \in RunNames, overwrite \in BOOLEAN :
          \E created \in {create_run_dir(config_dict, "test", run_name, overwrite, clock, dirs)} :
              /\ call' = [config_dict |-> config_dict, output_prefix |-> "test",
                          run_name |-> run_name, overwrite |-> overwrite,
                          now |-> clock, existing |-> dirs]
              /\ dirs' = created.dirs
              /\ run_info' = created.run_info
              /\ ret' = [value |-> created,
                         fresh |-> IF created.raised = None /\ ~overwrite
                                   THEN Counted(ret.fresh, created.run_info.run_id)
                                   ELSE ret.fresh]
    /\ UNCHANGED <<disk_files, manifest, latest, clock>>
    /\ UNCHANGED <<config, base_genes, go_annotations, scores, files, annotations, outputs>>

\* compute_config_hash of two dicts, as the tests call it: on its own,
\* before any run directory is made
CallComputeConfigHash ==
    /\ pc = "idle"
    /\ pc' = "returned_compute_config_hash"
    /\ \E config1 \in RunDirConfigs, config2 \in RunDirConfigs :
          /\ call' = [config1 |-> config1, config2 |-> config2]
          /\ ret' = [value |-> [hash1 |-> compute_config_hash(config1),
                                hash2 |-> compute_config_hash(config2)],
                     fresh |-> ret.fresh]
    /\ UNCHANGED filesystem
    /\ UNCHANGED <<config, base_genes, go_annotations, scores, files, annotations, outputs>>

NextRunDir ==
    \/ Tick
    \/ CallCreateRunDir
    \/ CallComputeConfigHash

SpecRunDir == InitRunDir /\ [][NextRunDir]_vars

\* the run id create_run_dir computes for the arguments of the call
ClaimRunId ==
    RunId(call.now, call.output_prefix, compute_config_hash(call.config_dict),
          call.run_name)

ClaimRunDirs == {RunPath(ClaimRunId, sub) : sub \in {"", "outputs", "qc", "logs"}}

ClaimSameContent(config1, config2) == Range(config1) = Range(config2)

\* C24: two dicts with the same keys and values give the same hash whatever
\* their insertion order; a hash is 8 characters long; the run id of
\* create_run_dir holds the hash of its config as third part.
C24_HashOfContent ==
    /\ pc = "returned_compute_config_hash" =>
            /\ Len(ret.value.hash1) = 8
            /\ Len(ret.value.hash2) = 8
            /\ ClaimSameContent(call.config1, call.config2) =>
                    ret.value.hash1 = ret.value.hash2
    /\ (pc = "returned_create_run_dir" /\ ret.value.raised = None) =>
            /\ ret.value.run_info.run_id[3] = compute_config_hash(call.config_dict)
            /\ Len(ret.value.run_info.run_id[3]) = 8

\* the same content in two insertion orders was hashed
C24_Witness ==
    /\ pc = "returned_compute_config_hash"
    /\ call.config1 # call.config2
    /\ ClaimSameContent(call.config1, call.config2)
    /\ ret.value.hash1 = ret.value.hash2

(***************************************************************************)
(* create_manifest called on the directory of a finished run               *)
(***************************************************************************)
MaxListed == 2

\* entries of a files_info list as in test_create_manifest: with and
\* without 'rows' and 'description', for a file that exists and for one
\* that does not
ManifestItems ==
    { [path |-> "outputs/genes.base.txt", description |-> "File 1", rows |-> <<10>>],
      [path |-> "config_used.yaml", description |-> "", rows |-> <<>>],
      [path |-> "outputs/genes.missing.txt", description |-> "File 2", rows |-> <<>>] }

ManifestLists == SeqsUpTo(ManifestItems, MaxListed)

\* a directory that create_run_dir did not make: it has no outputs/
PlainDir == RunPath(RunId(0, "test", <<>>, None), "")

\* the GO file of the run: two genes
ManifestRunTable == <<GoRow(P1, GO_PCD, "BP"), GoRow(P2, GO_ROS, "BP")>>

InitManifest ==
    /\ pc = "start"
    /\ Constructed(BaseConfig, ManifestRunTable)
    /\ call = <<>>
    /\ ret = <<>>

\* one call of create_manifest after the run
CallCreateManifest ==
    /\ pc = "finished"
    /\ pc' = "returned_create_manifest"
    /\ \E files_info \in ManifestLists, run_dir \in {run_info.run_dir, PlainDir} :
          LET made == create_manifest(files_info, run_dir, clock, dirs, disk_files)
          IN  /\ call' = [files_info |-> files_info, run_dir |-> run_dir]
              /\ ret' = made
              /\ manifest' = IF made.raised = None THEN made.manifest ELSE manifest
    /\ UNCHANGED <<run_info, dirs, disk_files, latest, clock>>
    /\ UNCHANGED <<config, base_genes, go_annotations, scores, files, annotations, outputs>>

NextManifest ==
    \/ Next
    \/ CallCreateManifest

SpecManifest == InitManifest /\ [][NextManifest]_vars

\* the listed file exists under the run directory of the call
ClaimListedExists(file_info) == RunFile(call.run_dir, file_info.path) \in DOMAIN disk_files

ClaimHighOverview == "outputs/genes.HIGH_overview.tsv"

\* C23: the manifest holds run_id, created and one entry per listed file
\* that exists under run_dir, in the order of the list, with path,
\* description, rows, size and a non-empty sha256; listed files that do not
\* exist are left out.  The manifest the ranker writes has the
\* HIGH_overview entry exactly when the high-confidence set is non-empty.
C23_ManifestEntries ==
    /\ (pc = "returned_create_manifest" /\ ret.raised = None) =>
            LET existing == SelectSeq(call.files_info, ClaimListedExists)
                written == manifest[1]
            IN  /\ written.run_id = call.run_dir.run
                /\ written.created = clock
                /\ Len(written.files) = Len(existing)
                /\ \A i \in 1..Len(existing) :
                      /\ written.files[i].path = existing[i].path
                      /\ written.files[i].description = existing[i].description
                      /\ written.files[i].rows = existing[i].rows
                      /\ written.files[i].size_bytes =
                            Len(disk_files[RunFile(call.run_dir, existing[i].path)])
                      /\ written.files[i].sha256 # <<>>
    /\ pc \in {"done", "finished"} =>
            /\ manifest # <<>>
            /\ (\E i \in 1..Len(manifest[1].files) :
                    manifest[1].files[i].path = ClaimHighOverview)
                <=> Len(hc_file) > 0

\* a list that names an existing file before a missing one
C23_Witness ==
    /\ pc = "returned_create_manifest"
    /\ ret.raised = None
    /\ Len(call.files_info) = 2
    /\ ClaimListedExists(call.files_info[1])
    /\ ~ClaimListedExists(call.files_info[2])
    /\ Len(manifest[1].files) = 1

(***************************************************************************)
(* main() invoked again and again, and get_latest_run_dir in between; a    *)
(* run is taken by its outcome: run() returns or raises                    *)
(***************************************************************************)
\* the configuration file main() is given
MainConfigs == {BaseConfig}

InitMain ==
    /\ pc = "idle"
    /\ InitFields(BaseConfig, <<>>)
    /\ run_info = <<>>
    /\ dirs = {}
    /\ disk_files = <<>>
    /\ manifest = <<>>
    /\ latest = NoLatest
    /\ clock = 0
    /\ call = <<>>
    /\ ret = <<>>

\* main(): GeneSignatureRanker(args.config, run_name, overwrite); a
\* FileExistsError ends the process
MainConstruct ==
    /\ pc \in {"idle", "returned_get_latest_run_dir"}
    /\ Cardinality({d \in dirs : d.sub = ""}) < MaxRunDirs
    /\ \E cfg \in MainConfigs, run_name \in RunNames, overwrite \in BOOLEAN :
          \E created \in {create_run_dir(ConfigDict(cfg), OutputPrefix, run_name, overwrite,
                                         clock, dirs)} :
              IF created.raised = None
              THEN /\ config' = cfg
                   /\ run_info' = created.run_info
                   /\ dirs' = created.dirs
                   /\ pc' = "running"
              ELSE /\ pc' = "idle"
                   /\ UNCHANGED <<config, run_info, dirs>>
    /\ UNCHANGED <<disk_files, manifest, latest, clock>>
    /\ UNCHANGED <<go_table, base_genes, go_annotations, scores, domtbl, gene_domains,
                   ortho_df, ortho_data, annotations, standalone, outputs>>

\* the base genes and the scored table of a run that completes
MainGenes == << <<Core1, ".v1.2">> >>
MainRows == << [brachy_gene_id |-> <<Core1, ".v1.2">>] >>

\* ranker.run(): the config snapshot, then the stages; it returns after
\* _write_outputs, or a stage raises
MainRun ==
    /\ pc = "running"
    /\ LET snapshot == Written(disk_files, RunFile(run_info.run_dir, "config_used.yaml"),
                               yaml_dump(ConfigDict(config)))
           written == WriteAll(snapshot, run_info.run_dir,
                               OutputFiles(MainGenes, MainRows, MainRows,
                                           config.selection_mode))
       IN  \/ /\ pc' = "done"
              /\ disk_files' = written
              /\ manifest' = create_manifest(FilesInfo(1, 1), run_info.run_dir, clock,
                                             dirs, written).manifest
           \/ /\ pc' = "aborted"
              /\ disk_files' = snapshot
              /\ UNCHANGED manifest
    /\ UNCHANGED <<run_info, dirs, latest, clock>>
    /\ UNCHANGED <<config, base_genes, go_annotations, scores, files, annotations,
                   standalone, outputs>>

\* the process ends; call.updated keeps the argument of the last
\* update_latest_symlink
MainExit ==
    /\ pc \in {"finished", "aborted", "failed"}
    /\ pc' = "idle"
    /\ call' = IF pc = "aborted" THEN call ELSE [updated |-> run_info.run_dir]
    /\ UNCHANGED ret
    /\ UNCHANGED filesystem
    /\ UNCHANGED <<config, base_genes, go_annotations, scores, files, annotations, outputs>>

\* get_latest_run_dir called between two runs
CallGetLatestRunDir ==
    /\ pc = "idle"
    /\ pc' = "returned_get_latest_run_dir"
    /\ ret' = get_latest_run_dir(latest, dirs)
    /\ UNCHANGED call
    /\ UNCHANGED filesystem
    /\ UNCHANGED <<config, base_genes, go_annotations, scores, files, annotations, outputs>>

NextMain ==
    \/ Tick
    \/ MainConstruct
    \/ MainRun
    \/ UpdateLatest
    \/ MainExit
    \/ CallGetLatestRunDir

SpecMain == InitMain /\ [][NextMain]_vars

\* the directories 'latest' and latest_path.txt point at
ClaimDesignated ==
    {Absolute(latest.link[i]) : i \in 1..Len(latest.link)} \cup Range(latest.txt)

\* a run wrote all its outputs into the directory
ClaimCompletedIn(run_dir) ==
    \A i \in 1..5 :
        RunFile(run_dir, OutputFiles(MainGenes, MainRows, MainRows, "knee")[i][1])
            \in DOMAIN disk_files

\* C29: the pointer only ever designates a directory in which a run went
\* through all stages and wrote its outputs, never that of a run that
\* aborted; and once update_latest_symlink was called, get_latest_run_dir
\* returns the directory of the most recent call, through the symlink or
\* through latest_path.txt.
C29_LatestPointer ==
    /\ \A run_dir \in ClaimDesignated : ClaimCompletedIn(run_dir)
    /\ (pc = "returned_get_latest_run_dir" /\ call # <<>>) =>
            ret = <<Absolute(call.updated)>>

\* after a symlink update for one run and a text-file update for the next,
\* and with a run that aborted in a third directory
C29_Witness ==
    /\ pc = "returned_get_latest_run_dir"
    /\ call # <<>>
    /\ latest.link = <<>>
    /\ latest.txt # <<>>
    /\ \E d \in dirs : d.sub = "" /\ ~ClaimCompletedIn(d)

(***************************************************************************)
(* _parse_orthology_file called on its own                                 *)
(***************************************************************************)
MaxOrthoRows == 2

\* rows of an orthology table: the query is a first or second isoform of
\* one locus, another locus, or an id of another naming scheme; OrtoB holds
\* one or two targets with scores, no target, a target as last token, or a
\* target followed by a token that is no number
ParseOrthoRowSet ==
    { OrthoRow(a, b) :
        a \in {<<Core1, ".1">>, <<Core1, ".2">>, <<Core2, ".1">>, <<Bradi>>},
        b \in {<<"AT1G01010.1", "1.000">>,
               <<"AT2G02020.1", "0.700", "AT3G03030.1", "0.900">>,
               <<"0.500">>,
               <<"AT3G03030.1">>,
               <<"AT1G01010.1", "100%">>} }

InitParseOrtho ==
    /\ pc = "call_parse_orthology"
    /\ Constructed(BaseConfig, <<>>)
    /\ call \in [rows : SeqsUpTo(ParseOrthoRowSet, MaxOrthoRows), suffix : {".v1.2"}]
    /\ ret = <<>>

CallParseOrthologyFile ==
    /\ pc = "call_parse_orthology"
    /\ pc' = "returned_parse_orthology"
    /\ ret' = _parse_orthology_file(call.rows, call.suffix)
    /\ UNCHANGED <<config, filesystem, base_genes, go_annotations, scores, files, annotations, call, outputs>>

NextParseOrtho == CallParseOrthologyFile

SpecParseOrtho == InitParseOrtho /\ [][NextParseOrtho]_vars

\* the (target id, score) pairs of an OrtoB token stream: one per token
\* that holds a target id, with the number of the token after it (0.0 for
\* a target that is the last token)
ClaimPairs(tokens) ==
    LET IsTarget(i) == ArabMatch(tokens[i]) # None
        at == SelectSeq([i \in 1..Len(tokens) |-> i], IsTarget)
    IN  [k \in 1..Len(at) |->
            <<ArabMatch(tokens[at[k]]),
              IF at[k] < Len(tokens) THEN Float(tokens[at[k] + 1]) ELSE 0>>]

ClaimRowGene(i) == OrthoGeneId(call.suffix, call.rows[i].OrtoA)

\* the row names a query gene and at least one target
ClaimRowCounts(i) ==
    /\ ClaimRowGene(i) # NoId
    /\ ClaimPairs(call.rows[i].OrtoB) # <<>>

MaxDomRows == 2

DomtblRows ==
    [comment : BOOLEAN, nfields : {22, 23},
     target_name : {"Peptidase_C14"}, target_accession : {<<PF_CASPASE, ".26">>},
     query_name : {P1, P1b},
     full_evalue : {0 - 6, 0 - 4}, domain_evalue : {0 - 6, 0 - 5, 0 - 4}]

InitDomtbl ==
    /\ pc = "call_domtbl"
    /\ Constructed(BaseConfig, <<>>)
    /\ call \in [rows : SeqsUpTo(DomtblRows, MaxDomRows), evalue_threshold : {0 - 5}]
    /\ ret = <<>>

CallParseDomtbl ==
    /\ pc = "call_domtbl"
    /\ pc' = "returned_domtbl"
    /\ ret' = parse_domtbl(call.rows, call.evalue_threshold)
    /\ UNCHANGED <<config, filesystem, base_genes, go_annotations, scores, files, annotations, call, outputs>>

NextDomtbl == CallParseDomtbl

SpecDomtbl == InitDomtbl /\ [][NextDomtbl]_vars

\* the rows the claim says are retained: data rows of at least 23 fields
\* whose domain e-value is at most the threshold
C10_Retained(row) ==
    /\ ~row.comment
    /\ row.nfields >= 23
    /\ row.domain_evalue <= call.evalue_threshold

\* the GeneID of a query name: ".1.p" and ".p" removed, ".v1.2" appended
C10_GeneIdOf(query_name) ==
    IF query_name = P1 THEN <<Core1, ".v1.2">> ELSE <<Core1, ".2", ".v1.2">>

MaxGoRows == 2

GoRows ==
    [gene : {P1, P1b, P2, PX}, GO : {GO_PCD, GO_DEATH, GO_OTHER}, level : {"BP", "MF"}]

GoOnly ==
    [BaseConfig EXCEPT !.domain_enabled = FALSE, !.orthology_enabled = FALSE,
                       !.arabidopsis_enabled = FALSE, !.po_enabled = FALSE]

GoConfigs ==
    {[GoOnly EXCEPT !.go_weights = w, !.go_level_filter = f] :
        w \in {GoWeights2, GoWeights3}, f \in {"bp", "ALL", ""}}

InitGO ==
    /\ pc = "start"
    /\ \E cfg \in GoConfigs, table \in SeqsUpTo(GoRows, MaxGoRows) : Constructed(cfg, table)
    /\ call = <<>>
    /\ ret = <<>>

NextGO ==
    \/ LoadAnnotations(RunGffs, RunPos)
    \/ ExtractBaseGenes
    \/ InitScoring
    \/ ScoreGoEvidence

SpecGO == InitGO /\ [][NextGO]_vars

RECURSIVE SumOver(_, _)
SumOver(S, weight) ==
    IF S = {} THEN 0
    ELSE LET x == CHOOSE y \in S : TRUE
         IN  weight[x] + SumOver(S \ {x}, weight)

\* the GeneID the claims give a raw id: locus + suffix; none for PX
ClaimGeneId(raw) ==
    IF raw \in {P1, P1b} THEN <<Core1, config.seurat_suffix>>
    ELSE IF raw = P2 THEN <<Core2, config.seurat_suffix>>
    ELSE NoId

\* the rows of the GO file that qualify: mapped id, target term, level
\* passing the filter (no filter when it is ALL or not set)
ClaimQualifies(row) ==
    /\ ClaimGeneId(row.gene) # NoId
    /\ \E i \in 1..Len(config.go_weights) : row.GO \in DOMAIN config.go_weights[i].terms
    /\ \/ config.go_level_filter \in {"ALL", "all", ""}
       \/ config.go_level_filter \in {"BP", "bp"} /\ row.level = "BP"
       \/ config.go_level_filter \in {"MF", "mf"} /\ row.level = "MF"

\* C5: the raw GO score of a base gene is the sum of the weights of the
\* distinct (category, term) pairs the gene matches, however many rows carry
\* the same gene and term.
C5_GoRawCountsDistinctTerms ==
    pc = "domain" =>
        \A g \in Range(base_genes) :
            LET terms == {go_table[i].GO : i \in {j \in 1..Len(go_table) :
                             ClaimQualifies(go_table[j]) /\ ClaimGeneId(go_table[j].gene) = g}}
                pairs == {p \in (1..Len(config.go_weights)) \X terms :
                             p[2] \in DOMAIN config.go_weights[p[1]].terms}
            IN  gene_scores_raw[g].go =
                    SumOver(pairs, [p \in pairs |-> config.go_weights[p[1]].terms[p[2]]])

\* C6: the base gene list holds exactly the canonical ids of the qualifying
\* rows, each once, and every id ends with the configured suffix.
C6_BaseGenesExact ==
    pc \in {"init", "go", "domain"} =>
        /\ Range(base_genes) =
              {ClaimGeneId(go_table[i].gene) : i \in {j \in 1..Len(go_table) :
                                                        ClaimQualifies(go_table[j])}}
        /\ Cardinality(Range(base_genes)) = Len(base_genes)
        /\ \A i \in 1..Len(base_genes) :
              base_genes[i][Len(base_genes[i])] = config.seurat_suffix

\* two qualifying rows of two isoforms of one gene gave a list of one gene,
\* under a level filter that is in force
C6_Witness ==
    /\ pc = "go"
    /\ config.go_level_filter = "bp"
    /\ Len(go_table) = 2
    /\ go_table[1].gene = P1
    /\ go_table[2].gene = P1b
    /\ ClaimQualifies(go_table[1])
    /\ ClaimQualifies(go_table[2])
    /\ Len(base_genes) = 1

(***************************************************************************)
(* Domain scoring against the expected domains of the categories           *)
(***************************************************************************)
\* the configured categories a gene has a GO term of
ClaimCategories(g) ==
    {i \in 1..Len(config.go_weights) :
        Range(gene_evidence[g].go_terms) \cap DOMAIN config.go_weights[i].terms # {}}

\* expected_domains[C] of a configured category
ClaimExpected(i) ==
    IF config.go_weights[i].name \in DOMAIN config.expected_domains
    THEN config.expected_domains[config.go_weights[i].name]
    ELSE {}

\* C9: for a gene of exactly one configured category only the domain ids on
\* that category's expected list are counted; for a gene of two or more
\* categories, or of none, the counted ids are its hits on the union of the
\* expected lists of all configured categories.
C9_DomainsOfOwnCategory ==
    pc \in {"orthology", "tair", "po", "synergy", "total", "write", "done"} =>
        \A g \in Range(base_genes) :
            LET counted == {gene_evidence[g].matched_domains[i].pfam_id :
                               i \in 1..Len(gene_evidence[g].matched_domains)}
                hits == IF g \in DOMAIN gene_domains
                        THEN {gene_domains[g][i].pfam_id : i \in 1..Len(gene_domains[g])}
                        ELSE {}
                cats == ClaimCategories(g)
            IN  IF Cardinality(cats) = 1
                THEN \A i \in cats : counted \subseteq ClaimExpected(i)
                ELSE counted = hits \cap UNION {ClaimExpected(i) : i \in 1..Len(config.go_weights)}

(***************************************************************************)
(* Orthology scoring                                                       *)
(***************************************************************************)
OrthologyStageRan == pc \in {"tair", "po", "synergy", "total", "write", "done"}

\* C11: after the orthology stage, a base gene with an orthology record
\* has raw 0 when its best score is below min_best_score_for_points, else
\* best_score * best_hit_multiplier, plus one_to_one_bonus exactly when its
\* class is one_to_one; a base gene without a record keeps raw 0 and class
\* 'none'.
C11_OrthologyRaw ==
    OrthologyStageRan =>
        \A g \in Range(base_genes) :
            IF g \in DOMAIN ortho_data
            THEN LET best == ortho_data[g].best_score
                     class == gene_evidence[g].orthology_class
                     points == best * config.best_hit_multiplier
                 IN  /\ class = ortho_data[g].classification
                     /\ best < config.min_best_score_for_points
                            => gene_scores_raw[g].orthology = 0
                     /\ (best >= config.min_best_score_for_points /\ class = "one_to_one")
                            => gene_scores_raw[g].orthology = points + config.one_to_one_bonus
                     /\ (best >= config.min_best_score_for_points /\ class # "one_to_one")
                            => gene_scores_raw[g].orthology = points
            ELSE /\ gene_scores_raw[g].orthology = 0
                 /\ gene_evidence[g].orthology_class = "none"

\* a finished run with a low_confidence gene that has points without the
\* bonus, next to a one_to_many gene without the bonus
C11_Witness ==
    /\ pc = "done"
    /\ \E g, h \in Range(base_genes) :
          /\ gene_evidence[g].orthology_class = "low_confidence"
          /\ gene_scores_raw[g].orthology = 14
          /\ gene_evidence[h].orthology_class = "one_to_many"
          /\ gene_scores_raw[h].orthology = 18

(***************************************************************************)
(* Keyword scoring                                                         *)
(***************************************************************************)
\* a keyword occurs, ignoring case, in the symbol or the description
ClaimOccurs(kw, at_info) ==
    \E w \in {at_info.symbol} \cup Range(at_info.annotation_text) : Lower(w) = Lower(kw)

\* C12: with the keyword layer enabled, the keyword raw score of a base gene
\* is the number of distinct configured keywords occurring in the symbol and
\* description of its best orthologue, times the weight; without a best
\* orthologue or without a reference entry the raw score is 0 and the hit
\* list empty.
C12_KeywordRawCountsDistinct ==
    (config.arabidopsis_enabled /\ pc \in {"po", "synergy", "total", "write", "done"}) =>
        \A g \in Range(base_genes) :
            LET best == gene_evidence[g].best_ortholog
            IN  IF best # None /\ best \in DOMAIN arabidopsis_annotations
                THEN gene_scores_raw[g].tair =
                        Cardinality({kw \in Range(config.keywords) :
                                        ClaimOccurs(kw, arabidopsis_annotations[best])})
                        * config.tair_keywords_hit
                ELSE /\ gene_scores_raw[g].tair = 0
                     /\ gene_evidence[g].tair_keyword_hits = <<>>

(***************************************************************************)
(* Synergy rules                                                           *)
(***************************************************************************)
\* the gene has a GO term of the named category
ClaimInCategory(g, name) ==
    \E i \in 1..Len(config.go_weights) :
        /\ config.go_weights[i].name = name
        /\ Range(gene_evidence[g].go_terms) \cap DOMAIN config.go_weights[i].terms # {}

\* what each condition asks of the evidence of a gene
ClaimConditionTrue(g, cond) ==
    CASE cond = "has_PCD_GO" -> ClaimInCategory(g, "PCD")
      [] cond = "has_ROS_GO" -> ClaimInCategory(g, "ROS")
      [] cond = "has_expected_domain" -> gene_evidence[g].matched_domains # <<>>
      [] cond = "has_one_to_one_ortholog" -> gene_evidence[g].orthology_class = "one_to_one"
      [] cond = "tair_keyword_hits>=1" -> Len(gene_evidence[g].tair_keyword_hits) >= 1
      [] cond = "tair_keyword_hits>=2" -> Len(gene_evidence[g].tair_keyword_hits) >= 2
      [] cond = "tair_keyword_hits>=3" -> Len(gene_evidence[g].tair_keyword_hits) >= 3
      [] OTHER -> FALSE

ClaimRuleFires(g, rule) ==
    \A k \in 1..Len(rule.if_all) : ClaimConditionTrue(g, rule.if_all[k])

RECURSIVE ClaimBonusSum(_, _, _)
ClaimBonusSum(g, rules, k) ==
    IF k > Len(rules) THEN 0
    ELSE (IF ClaimRuleFires(g, rules[k]) THEN rules[k].bonus ELSE 0)
         + ClaimBonusSum(g, rules, k + 1)

\* C13: once the synergy stage has run, a rule's name is in the trigger
\* list of a gene iff all its conditions hold for that gene, the raw
\* synergy is the sum of the bonuses of the fired rules, the capped synergy
\* is min(raw, synergy_max); the rule [has_PCD_GO, has_expected_domain]
\* contributes its bonus exactly to the PCD genes with a matched domain.
C13_SynergyRules ==
    pc \in {"total", "write", "done"} =>
        \A g \in Range(base_genes) :
            LET rules == config.synergy_rules
                raw == gene_scores_raw[g].synergy
            IN  /\ \A k \in 1..Len(rules) :
                      (rules[k].name \in Range(synergy_bonuses[g])) <=> ClaimRuleFires(g, rules[k])
                /\ Len(synergy_bonuses[g]) =
                      Cardinality({k \in 1..Len(rules) : ClaimRuleFires(g, rules[k])})
                /\ raw = ClaimBonusSum(g, rules, 1)
                /\ gene_scores_capped[g].synergy =
                      (IF raw <= config.caps.synergy_max THEN raw ELSE config.caps.synergy_max)

\* a finished run in which the PCD-and-domain rule and the keyword rule
\* fired for one gene, over the cap, and no rule fired for another gene
\* that has a one-to-one orthologue but no ROS term
C13_Witness ==
    /\ pc = "done"
    /\ \E g, h \in Range(base_genes) :
          /\ synergy_bonuses[g] = <<"PCD_GO_plus_domain", "keywords">>
          /\ gene_scores_raw[g].synergy = 50
          /\ gene_scores_capped[g].synergy = 40
          /\ gene_evidence[h].orthology_class = "one_to_one"
          /\ ~ClaimInCategory(h, "ROS")
          /\ synergy_bonuses[h] = <<>>
          /\ gene_scores_raw[h].synergy = 0

\* the conditions the detector knows: four names and a keyword-hit-count
\* threshold with an integer after ">="
ClaimRecognised(cond) ==
    cond \in {"has_PCD_GO", "has_ROS_GO", "has_expected_domain", "has_one_to_one_ortholog",
              "tair_keyword_hits>=1", "tair_keyword_hits>=2", "tair_keyword_hits>=3"}

ClaimHasUnrecognised(rule) ==
    \E k \in 1..Len(rule.if_all) : ~ClaimRecognised(rule.if_all[k])

\* C14: the synergy stage never ends the run because of a condition it does
\* not recognise, and a rule containing such a condition fires for no gene.
C14_UnrecognisedFailsClosed ==
    [][pc = "synergy" =>
          /\ pc' # "aborted"
          /\ \A k \in 1..Len(config.synergy_rules) :
                ClaimHasUnrecognised(config.synergy_rules[k]) =>
                    \A g \in Range(base_genes) :
                        config.synergy_rules[k].name \notin Range(synergy_bonuses'[g])]_vars

(***************************************************************************)
(* _find_knee_threshold called on its own                                  *)
(***************************************************************************)
MaxScores == 10

\* total scores of the genes, in tenths
KneeScoreValues == {0, 10, 30}

InitKnee ==
    /\ pc = "call_knee"
    /\ Constructed(BaseConfig, <<>>)
    /\ call \in [scores : SeqsUpTo(KneeScoreValues, MaxScores) \ {<<>>}]
    /\ ret = <<>>

CallFindKneeThreshold ==
    /\ pc = "call_knee"
    /\ pc' = "returned_knee"
    /\ ret' = [threshold |-> _find_knee_threshold(call.scores)]
    /\ UNCHANGED <<config, filesystem, base_genes, go_annotations, scores, files, annotations, call, outputs>>

NextKnee == CallFindKneeThreshold

SpecKnee == InitKnee /\ [][NextKnee]_vars

\* the k-th smallest of the scores
ClaimKthSmallest(values, k) ==
    CHOOSE v \in Range(values) :
        /\ Cardinality({i \in 1..Len(values) : values[i] <= v}) >= k
        /\ Cardinality({i \in 1..Len(values) : values[i] < v}) < k

\* the k-th largest of the scores: entry k of the descending-sorted array
ClaimKthLargest(values, k) == ClaimKthSmallest(values, Len(values) + 1 - k)

SelectConfigs ==
    { BaseConfig,
      [BaseConfig EXCEPT !.selection_mode = "quantile", !.selection_quantile = 5],
      [BaseConfig EXCEPT !.selection_mode = "quantile"] }

\* the totals of a scored table, in the descending order in which
\* _write_outputs passes it on
SelectCalls ==
    [scores : {t \in SeqsUpTo(KneeScoreValues, MaxScores) \ {<<>>} :
                  \A i \in 1..(Len(t) - 1) : t[i] >= t[i + 1]}]

InitSelect ==
    /\ pc = "call_select"
    /\ Constructed(BaseConfig, <<>>)
    /\ call \in SelectCalls
    /\ ret = <<>>

\* _select_high_confidence on a scored table with the given totals; gene i
\* is the i-th row
CallSelectHighConfidence ==
    /\ pc = "call_select"
    /\ pc' = "returned_select"
    /\ \E cfg \in SelectConfigs :
          LET totals == call.scores
              rows == [i \in 1..Len(totals) |->
                          [brachy_gene_id |-> i, total_score |-> totals[i]]]
              thr == SelectionThreshold(cfg, totals)
              IsSelected(row) == Selected(row, thr)
              selected == SelectSeq(rows, IsSelected)
          IN  /\ config' = cfg
              /\ df_scored' = rows
              /\ threshold' = thr
              /\ selected_df' = selected
              /\ hc_file' = [i \in 1..Len(selected) |-> selected[i].brachy_gene_id]
    /\ UNCHANGED ret
    /\ UNCHANGED <<filesystem, base_genes, go_annotations, scores, files, annotations, call>>

NextSelect == CallSelectHighConfidence

SpecSelect == InitSelect /\ [][NextSelect]_vars

\* C28: whatever the totals of a non-empty gene set and whichever the
\* selection mode, the high-confidence set is not empty, holds every gene
\* with the highest total, and with a gene holds every gene whose total is
\* at least as high.
C28_SelectionUpwardClosed ==
    pc = "returned_select" =>
        LET n == Len(df_scored)
            top == Max({df_scored[i].total_score : i \in 1..n})
            InSet(i) == df_scored[i].brachy_gene_id \in Range(hc_file)
        IN  /\ hc_file # <<>>
            /\ \A i \in 1..n : df_scored[i].total_score = top => InSet(i)
            /\ \A i, j \in 1..n :
                  (InSet(i) /\ df_scored[j].total_score >= df_scored[i].total_score)
                      => InSet(j)

\* ten genes in knee mode, two of them with the highest total, and a
\* selection that leaves genes out
C28_Witness ==
    /\ pc = "returned_select"
    /\ config.selection_mode = "knee"
    /\ Len(df_scored) = 10
    /\ df_scored[2].total_score = df_scored[1].total_score
    /\ df_scored[3].total_score < df_scored[1].total_score
    /\ Len(hc_file) \in 2..9

(***************************************************************************)
(* High-confidence selection in the pipeline run                           *)
(***************************************************************************)
\* C16: in knee mode and in quantile mode the ids of the high-confidence
\* file are exactly the base genes whose total is >= the threshold, each
\* once, and the returned high-confidence table has the same genes in the
\* same order (threshold in twentieths of a point).
C16_SelectionExact ==
    pc = "done" =>
        /\ Range(hc_file) =
              {g \in Range(base_genes) : 20 * gene_scores_capped[g].total >= threshold}
        /\ Cardinality(Range(hc_file)) = Len(hc_file)
        /\ Len(selected_df) = Len(hc_file)
        /\ \A i \in 1..Len(hc_file) : selected_df[i].brachy_gene_id = hc_file[i]

\* a finished quantile-mode run of two genes in which the threshold lies
\* strictly between the two totals and only the upper gene was selected
C16_Witness ==
    /\ pc = "done"
    /\ config.selection_mode = "quantile"
    /\ Len(base_genes) = 2
    /\ Len(hc_file) = 1
    /\ \E g \in Range(base_genes) :
          /\ 20 * gene_scores_capped[g].total < threshold
          /\ g \notin Range(hc_file)
    /\ 20 * gene_scores_capped[hc_file[1]].total > threshold

(***************************************************************************)
(* Failures inside the optional layers                                     *)
(***************************************************************************)
\* what the claim allows a step of an optional layer to do
OptionalLayerDegrades ==
    pc \in {"domain", "orthology", "tair", "po"} =>
        /\ pc' # "aborted"
        /\ (pc = "domain" /\ gene_domains' = <<>>) =>
              \A g \in Range(base_genes) :
                  gene_scores_raw'[g].domain = 0 /\ gene_scores_capped'[g].domain = 0
        /\ (pc = "orthology" /\ ortho_data' = <<>>) =>
              \A g \in Range(base_genes) :
                  gene_scores_raw'[g].orthology = 0 /\ gene_scores_capped'[g].orthology = 0

\* C17: no step of the domain, orthology, keyword or ontology-context
\* stage ends the run; the run goes on to the next stage, and a domain or
\* orthology stage that produced no evidence leaves the raw and capped
\* scores of its layer at 0 for every gene.
C17_OptionalLayersDegrade == [][OptionalLayerDegrades]_vars

(***************************************************************************)
(* Order of the stages                                                     *)
(***************************************************************************)
\* the stage that follows a stage in run()
ClaimNextStage(stage) ==
    CASE stage = "start"     -> "extract"
      [] stage = "extract"   -> "init"
      [] stage = "init"      -> "go"
      [] stage = "go"        -> "domain"
      [] stage = "domain"    -> "orthology"
      [] stage = "orthology" -> "tair"
      [] stage = "tair"      -> "po"
      [] stage = "po"        -> "synergy"
      [] stage = "synergy"   -> "total"
      [] stage = "total"     -> "write"
      [] stage = "write"     -> "done"
      [] stage = "done"      -> "finished"
      [] OTHER               -> "none"

\* the stage in which a layer score may change
ClaimStageOf(layer) ==
    CASE layer = "go" -> "go"
      [] layer = "domain" -> "domain"
      [] layer = "orthology" -> "orthology"
      [] layer = "tair" -> "tair"
      [] layer = "po" -> "po"
      [] layer = "synergy" -> "synergy"

\* one step of a run: the next stage in the fixed order, or the end of the
\* run; a layer score changes only in the stage of its layer, a total only
\* in the total stage, the written tables and the selection only in the
\* output stage
StepInOrder ==
    /\ pc' \in {ClaimNextStage(pc), "aborted"}
    /\ \A g \in DOMAIN gene_scores_capped \cap DOMAIN gene_scores_capped' :
          /\ \A layer \in Layers :
                pc # ClaimStageOf(layer) =>
                    /\ gene_scores_raw'[g][layer] = gene_scores_raw[g][layer]
                    /\ gene_scores_capped'[g][layer] = gene_scores_capped[g][layer]
          /\ pc # "synergy" => synergy_bonuses'[g] = synergy_bonuses[g]
          /\ pc # "total" => gene_scores_capped'[g].total = gene_scores_capped[g].total
    /\ pc # "write" => UNCHANGED outputs

\* C18: every step of a run goes from one stage to the next one in the
\* order base extraction, GO, domain, orthology, keyword, ontology context,
\* synergy, total, output, so no stage runs twice or before an earlier one;
\* synergy is computed after the five evidence layers, totals after
\* synergy, and the selection after the totals.
C18_StagesInOrder == [][StepInOrder]_vars

\* a finished run with all layers enabled in which a gene got a score from
\* every layer and was selected
C18_Witness ==
    /\ pc = "done"
    /\ config.domain_enabled /\ config.orthology_enabled
    /\ config.arabidopsis_enabled /\ config.po_enabled
    /\ \E g \in Range(hc_file) :
          \A layer \in Layers : gene_scores_capped[g][layer] > 0

(***************************************************************************)
(* The scored table                                                        *)
(***************************************************************************)
\* the column names a raw and a capped layer score can have in the table
ClaimRawColumns(layer) ==
    CASE layer = "go"        -> {"go_score_raw"}
      [] layer = "domain"    -> {"domain_score_raw"}
      [] layer = "orthology" -> {"orth_score_raw"}
      [] layer = "tair"      -> {"tair_score_raw"}
      [] layer = "po"        -> {"po_score_raw"}
      [] layer = "synergy"   -> {"synergy_score_raw", "synergy_raw", "synergy_bonus_raw"}

ClaimCappedColumns(layer) ==
    CASE layer = "go"        -> {"go_score_capped"}
      [] layer = "domain"    -> {"domain_score_capped"}
      [] layer = "orthology" -> {"orth_score_capped"}
      [] layer = "tair"      -> {"tair_score_capped"}
      [] layer = "po"        -> {"po_score_capped"}
      [] layer = "synergy"   -> {"synergy_bonus", "synergy_score_capped"}

\* C19: the scored table has one row per base gene, and every row has, for
\* each of the six layers, a column with the raw score and a column with
\* the capped score the gene has in memory.
C19_TableHasRawAndCapped ==
    pc = "done" =>
        /\ Len(df_scored) = Len(base_genes)
        /\ {df_scored[i].brachy_gene_id : i \in 1..Len(df_scored)} = Range(base_genes)
        /\ \A i \in 1..Len(df_scored) : \A layer \in Layers :
              LET row == df_scored[i]
                  g == row.brachy_gene_id
              IN  /\ \E c \in ClaimRawColumns(layer) \cap DOMAIN row :
                        row[c] = gene_scores_raw[g][layer]
                  /\ \E c \in ClaimCappedColumns(layer) \cap DOMAIN row :
                        row[c] = gene_scores_capped[g][layer]

(***************************************************************************)
(* Ownership of the evidence fields                                        *)
(***************************************************************************)
\* C20: over a whole run every field of the evidence records is assigned by
\* at most one scorer.
C20_OneWriterPerField ==
    \A field \in DOMAIN evidence_writers : Cardinality(evidence_writers[field]) <= 1

(***************************************************************************)
(* Best orthologue and the layers that join on it                          *)
(***************************************************************************)
ClaimAfterOrthology == pc \in {"tair", "po", "synergy", "total", "write", "done", "finished"}

\* some row of the orthology table names the gene and pairs the target with
\* the score
ClaimTargetHasScore(g, target, score) ==
    \E i \in 1..Len(ortho_df) :
        /\ OrthoGeneId(config.seurat_suffix, ortho_df[i].OrtoA) = g
        /\ <<target, score>> \in Range(ClaimPairs(ortho_df[i].OrtoB))

\* C25: the best orthologue recorded for a gene with an orthology record is
\* a target whose score is the best score of the record, in whatever order
\* the OrtoB tokens list the targets.
C25_BestIsTopTarget ==
    ClaimAfterOrthology =>
        \A g \in Range(base_genes) \cap DOMAIN ortho_data :
            ClaimTargetHasScore(g, gene_evidence[g].best_ortholog, ortho_data[g].best_score)

ClaimAfterContext == pc \in {"synergy", "total", "write", "done", "finished"}

\* C27: when the orthology layer is disabled or returned before reading its
\* table, every gene keeps best_ortholog None and keyword and ontology
\* scores of 0, raw and capped, whatever those two layers are set to; a
\* gene with a keyword or ontology score other than 0 has a best orthologue
\* that the orthology stage of this run assigned.
C27_ContextNeedsOrthology ==
    ClaimAfterContext =>
        \A g \in Range(base_genes) :
            /\ (~config.orthology_enabled \/ ortho_df = <<>>) =>
                    /\ gene_evidence[g].best_ortholog = None
                    /\ gene_scores_raw[g].tair = 0 /\ gene_scores_capped[g].tair = 0
                    /\ gene_scores_raw[g].po = 0 /\ gene_scores_capped[g].po = 0
            /\ (gene_scores_raw[g].tair # 0 \/ gene_scores_raw[g].po # 0
                 \/ gene_scores_capped[g].tair # 0 \/ gene_scores_capped[g].po # 0) =>
                    /\ gene_evidence[g].best_ortholog # None
                    /\ "_score_orthology_evidence" \in evidence_writers.best_ortholog
                    /\ g \in DOMAIN ortho_data

\* a finished run without orthology layer, with keyword and ontology layers
\* on and their tables loaded, next to nothing scored
C27_Witness ==
    /\ pc = "done"
    /\ ~config.orthology_enabled
    /\ config.arabidopsis_enabled /\ config.po_enabled
    /\ DOMAIN arabidopsis_annotations # {}
    /\ DOMAIN arabidopsis_po_context # {}
    /\ base_genes # <<>>

(***************************************************************************)
(* End of the run                                                          *)
(***************************************************************************)
\* C30: a run whose GO table loads does not abort, whatever the base gene
\* set: it goes through every stage to the completed state.
C30_RunCompletes == config.go_file_exists => pc # "aborted"

====
